---- MODULE Spec2Model ----
(***************************************************************************)
(* Verification model of the congress-tracker frontend core:               *)
(*   - the insider-trade classifier of FeedCard (getInsiderKind,           *)
(*     getInsiderValue, parseNum) in its source variants,                  *)
(*   - the Filter State Store, Suggestion Engine and Pager of              *)
(*     FeedFilters / FeedList.                                             *)
(* Text is modelled as sequences of one-character strings so that trim,    *)
(* toUpperCase, startsWith and includes are computed, not assumed.         *)
(* Decimal numbers are integers counted in hundredths.                     *)
(***************************************************************************)
EXTENDS Integers, Sequences, FiniteSets, TLC

(***************************************************************************)
(* Text helpers (JavaScript String methods used by the source)             *)
(***************************************************************************)
Letters == <<"a","b","c","d","e","f","g","h","i","j","k","l","m",
             "n","o","p","q","r","s","t","u","v","w","x","y","z">>
Capitals == <<"A","B","C","D","E","F","G","H","I","J","K","L","M",
              "N","O","P","Q","R","S","T","U","V","W","X","Y","Z">>

\* String.prototype.toUpperCase on one character
UpperChar(c) ==
    IF \E i \in 1..26 : Letters[i] = c
    THEN Capitals[CHOOSE i \in 1..26 : Letters[i] = c]
    ELSE c

\* String.prototype.toUpperCase
toUpperCase(s) == [i \in 1..Len(s) |-> UpperChar(s[i])]

\* String.prototype.startsWith
startsWith(s, p) == Len(s) >= Len(p) /\ SubSeq(s, 1, Len(p)) = p

\* String.prototype.includes
includes(s, p) ==
    \E i \in 1..(Len(s) + 1) :
        i + Len(p) - 1 <= Len(s) /\ SubSeq(s, i, i + Len(p) - 1) = p

RECURSIVE trimStart(_)
trimStart(s) == IF s # <<>> /\ Head(s) = " " THEN trimStart(Tail(s)) ELSE s

RECURSIVE trimEnd(_)
trimEnd(s) ==
    IF s # <<>> /\ s[Len(s)] = " " THEN trimEnd(SubSeq(s, 1, Len(s) - 1)) ELSE s

\* String.prototype.trim
trim(s) == trimEnd(trimStart(s))

\* s.replace(/[...]/g, "") : drop every character of the set
RECURSIVE stripChars(_, _)
stripChars(s, cs) ==
    IF s = <<>> THEN <<>>
    ELSE IF Head(s) \in cs THEN stripChars(Tail(s), cs)
         ELSE <<Head(s)>> \o stripChars(Tail(s), cs)

(***************************************************************************)
(* JavaScript values that reach parseNum: null/undefined, a number (finite *)
(* or not), or a string.                                                   *)
(***************************************************************************)
Null == [t |-> "null"]
Num(n) == [t |-> "num", v |-> n]
NaN == [t |-> "nan"]
Inf == [t |-> "inf"]
Str(s) == [t |-> "str", s |-> s]

\* a ?? b
Coalesce(a, b) == IF a = Null THEN b ELSE a

Digits == <<"0","1","2","3","4","5","6","7","8","9">>
IsDigit(c) == \E i \in 1..10 : Digits[i] = c
DigitVal(c) == (CHOOSE i \in 1..10 : Digits[i] = c) - 1

RECURSIVE DigitsVal(_)
DigitsVal(s) ==
    IF s = <<>> THEN 0 ELSE DigitsVal(SubSeq(s, 1, Len(s) - 1)) * 10 + DigitVal(s[Len(s)])

AllDigits(s) == \A i \in 1..Len(s) : IsDigit(s[i])

\* Number(cleaned) for a non-empty trimmed decimal literal: an optional sign,
\* digits, an optional fraction of at most two digits; anything else is NaN.
\* The result is counted in hundredths.
NumberOf(s) ==
    LET neg == s # <<>> /\ Head(s) = "-"
        body == IF neg THEN Tail(s) ELSE s
        dots == {i \in 1..Len(body) : body[i] = "."}
        dot == IF dots = {} THEN Len(body) + 1 ELSE CHOOSE i \in dots : TRUE
        ip == SubSeq(body, 1, dot - 1)
        fp == SubSeq(body, dot + 1, Len(body))
        mag == DigitsVal(ip) * 100
               + (IF Len(fp) = 0 THEN 0
                  ELSE IF Len(fp) = 1 THEN DigitVal(fp[1]) * 10
                  ELSE DigitsVal(fp))
    IN IF body = <<"I","n","f","i","n","i","t","y">> THEN Inf
       ELSE IF Cardinality(dots) > 1 \/ ~AllDigits(ip) \/ ~AllDigits(fp)
          \/ Len(ip) + Len(fp) = 0 \/ Len(fp) > 2
       THEN NaN
       ELSE Num(IF neg THEN 0 - mag ELSE mag)

\* variant for C24: the currency symbol is not stripped
parseNumKeepCurrency(v) ==
    IF v = Null THEN Null
    ELSE IF v.t = "num" THEN v
    ELSE IF v.t # "str" THEN Null
    ELSE LET cleaned == trim(stripChars(v.s, {","}))
         IN IF cleaned = <<>> THEN Null
            ELSE IF NumberOf(cleaned) \in {NaN, Inf} THEN Null ELSE NumberOf(cleaned)

\* parseNum with cleaned = v.replace(/[$,]/g, "").trim()
parseNum(v) ==
    IF v = Null THEN Null
    ELSE IF v.t = "num" THEN v
    ELSE IF v.t # "str" THEN Null
    ELSE LET cleaned == trim(stripChars(v.s, {"$", ","}))
         IN IF cleaned = <<>> THEN Null
            ELSE IF NumberOf(cleaned) \in {NaN, Inf} THEN Null ELSE NumberOf(cleaned)

\* parseNum with cleaned = v.replace(/,/g, "").trim()  (older FeedCard variants)
parseNumComma(v) ==
    IF v = Null THEN Null
    ELSE IF v.t = "num" THEN v
    ELSE IF v.t # "str" THEN Null
    ELSE LET cleaned == trim(stripChars(v.s, {","}))
         IN IF cleaned = <<>> THEN Null
            ELSE IF NumberOf(cleaned) \in {NaN, Inf} THEN Null ELSE NumberOf(cleaned)

(***************************************************************************)
(* State                                                                   *)
(***************************************************************************)
VARIABLES
    item,      \* the FeedItem handed to FeedCard
    card,      \* what FeedCard rendered for it
    filters,                     \* FeedFilters: useState filters
    searchParams,                \* the URL query the component currently sees
    pendingNav,                  \* router.replace / Link navigations not yet applied
    commitTimer,                 \* the debounced-commit timeout is pending
    symbolSuggestions,           \* useState symbolSuggestions
    highlightedSuggestionIndex,  \* useState highlightedSuggestionIndex
    showSymbolSuggestions,       \* useState showSymbolSuggestions
    isSuggestingSymbol,          \* useState isSuggestingSymbol
    suggestionsRequestRef,       \* suggestionsRequestRef.current
    suggestTimer,                \* the pending suggestion timeout, with its closure
    inflight,                    \* suggestSymbols calls awaiting their response
    page,                        \* FeedList: useState page
    pageSize,                    \* FeedList: useState pageSize
    total,                       \* FeedList: useState total (-1 for null)
    edits,                       \* number of user edits so far (bounded)
    writes,                      \* number of URL writes issued so far (bounded)
    burst,                       \* edits since the commit timer last expired
    lastOp,                      \* the handler that ran last, with its outcome
    signalsUrl,                  \* SignalsClient: the URL query (useSearchParams)
    items,                       \* SignalsClient: useState items, as fetched batches
    debug,                       \* SignalsClient: useState debug
    loading,                     \* SignalsClient: useState loading
    loadingMore,                 \* SignalsClient: useState loadingMore
    errorMessage,                \* SignalsClient: useState errorMessage
    fetches,                     \* SignalsClient: loads and load-mores awaiting their data
    upstream,                    \* the events the API holds, in the order it answers with
    events                       \* FeedPage: the EventsResponse of the rendered page

clsVars == <<item, card>>
storeVars == <<filters, searchParams, pendingNav, commitTimer>>
suggestVars == <<symbolSuggestions, highlightedSuggestionIndex, showSymbolSuggestions,
                 isSuggestingSymbol, suggestionsRequestRef, suggestTimer, inflight>>
pagerVars == <<page, pageSize, total>>
histVars == <<edits, writes, burst, lastOp>>
signalVars == <<signalsUrl, items, debug, loading, loadingMore, errorMessage, fetches>>
feedVars == <<upstream, events>>
vars == <<item, card, filters, searchParams, pendingNav, commitTimer,
          symbolSuggestions, highlightedSuggestionIndex, showSymbolSuggestions,
          isSuggestingSymbol, suggestionsRequestRef, suggestTimer, inflight,
          page, pageSize, total, edits, writes, burst, lastOp,
          signalsUrl, items, debug, loading, loadingMore, errorMessage, fetches,
          upstream, events>>

(***************************************************************************)
(* Event Classifier: FeedCard's insider heuristics                         *)
(***************************************************************************)
S_P == <<"P">>
S_PDASH == <<"P","-">>
S_S == <<"S">>
S_SDASH == <<"S","-">>
S_PURCHASE == <<"P","U","R","C","H","A","S","E">>
S_SALE == <<"S","A","L","E">>
S_EXEMPT == <<"E","X","E","M","P","T">>
S_INKIND == <<"I","N","K","I","N","D">>
S_AWARD == <<"A","W","A","R","D">>
S_GRANT == <<"G","R","A","N","T">>
S_OPTION == <<"O","P","T","I","O","N">>
S_RSU == <<"R","S","U">>

\* the text of an optional string field, "" standing for the final ?? ""
TextOf(v) == IF v = Null THEN <<>> ELSE v.s

\* rawDirection of getInsiderKind (latest FeedCard): trade_type ??
\* insider.transaction_type ?? payload.transaction_type ??
\* payload.raw.transactionType ?? item.transaction_type ?? ""
rawDirection(it) ==
    TextOf(Coalesce(it.trade_type,
           Coalesce(it.insider_transaction_type,
           Coalesce(it.payload_transaction_type,
           Coalesce(it.raw_transactionType, it.transaction_type)))))

\* variant for C9: the coded type only
getInsiderKindNoFlag(it) ==
    LET t == toUpperCase(rawDirection(it))
    IN IF startsWith(t, S_PDASH) \/ startsWith(t, S_P) \/ includes(t, S_PURCHASE)
       THEN "purchase"
       ELSE IF startsWith(t, S_SDASH) \/ startsWith(t, S_S) \/ includes(t, S_SALE)
       THEN "sale"
       ELSE "none"

\* getInsiderKind of the latest FeedCard: coded type, then the
\* acquisition/disposition flag; "none" stands for null
getInsiderKind(it) ==
    LET t == toUpperCase(rawDirection(it))
        ad == toUpperCase(TextOf(it.raw_acquisitionOrDisposition))
    IN IF startsWith(t, S_PDASH) \/ startsWith(t, S_P) \/ includes(t, S_PURCHASE)
       THEN "purchase"
       ELSE IF startsWith(t, S_SDASH) \/ startsWith(t, S_S) \/ includes(t, S_SALE)
       THEN "sale"
       ELSE IF ad = <<"A">> THEN "purchase"
       ELSE IF ad = <<"D">> THEN "sale"
       ELSE "none"

\* raw of getInsiderKind (FeedCard with exclusion codes): trade_type ??
\* item.transaction_type ?? insider.transaction_type ??
\* payload.transaction_type ?? payload.raw.transactionType ?? ""
rawExcl(it) ==
    TextOf(Coalesce(it.trade_type,
           Coalesce(it.transaction_type,
           Coalesce(it.insider_transaction_type,
           Coalesce(it.payload_transaction_type, it.raw_transactionType)))))

\* getInsiderKind of the FeedCard variant with exclusion codes
getInsiderKindExcl(it) ==
    LET t == toUpperCase(rawExcl(it))
    IN IF includes(t, S_EXEMPT) \/ includes(t, S_INKIND) \/ includes(t, S_AWARD)
          \/ includes(t, S_GRANT) \/ includes(t, S_OPTION) \/ includes(t, S_RSU)
       THEN "none"
       ELSE IF startsWith(t, S_P) \/ includes(t, S_PURCHASE) THEN "purchase"
       ELSE IF startsWith(t, S_S) \/ includes(t, S_SALE) THEN "sale"
       ELSE "none"

\* JavaScript truthiness of a parsed number: null, 0 and NaN are falsy
Truthy(n) == n # Null /\ n # NaN /\ n.v # 0

\* getInsiderValue of the latest FeedCard: the reported amount, and the
\* shares and price kept only when positive
getInsiderValue(it) ==
    LET totalValue == parseNum(Coalesce(it.amount_range_min,
                               Coalesce(it.amount_min,
                               Coalesce(it.amount_range_max, it.amount_max))))
        shares == parseNum(Coalesce(it.payload_shares, it.raw_securitiesTransacted))
        price == parseNum(Coalesce(it.insider_price,
                          Coalesce(it.payload_price, it.raw_price)))
    IN [totalValue |-> totalValue,
        price |-> IF Truthy(price) /\ price.v > 0 THEN price ELSE Null,
        shares |-> IF Truthy(shares) /\ shares.v > 0 THEN shares ELSE Null]

\* shares * price for hundredths; the model's share counts are whole numbers,
\* so the division is exact
Times(a, b) == (a * b) \div 100

\* computeTotalValue
computeTotalValue(shares, price) ==
    IF ~Truthy(shares) \/ ~Truthy(price) \/ shares.v <= 0 \/ price.v <= 0
    THEN Null
    ELSE Num(Times(shares.v, price.v))

\* getInsiderValue of the FeedCard variant that derives shares * price
getInsiderValueDerived(it) ==
    LET shares == parseNumComma(Coalesce(it.payload_shares,
                                Coalesce(it.insider_shares, it.raw_securitiesTransacted)))
        price == parseNumComma(Coalesce(it.payload_price,
                               Coalesce(it.insider_price, it.raw_price)))
    IN [total |-> computeTotalValue(shares, price), shares |-> shares, price |-> price]

\* getInsiderValue of components/feed/FeedCard.tsx: the reported amount only
getInsiderValueAmt(it) ==
    [amt |-> parseNumComma(Coalesce(it.amount_min, it.amount_max))]

Threshold == 100100   \* 1001 dollars, in hundredths

\* getInsiderValue of the FeedCard variant with exclusion codes: the
\* reported maximum when at least $1,001, else shares * price when at
\* least $1,001; Null stands for a null result
getInsiderValueExcl(it) ==
    LET shares == parseNumComma(Coalesce(it.insider_shares,
                                Coalesce(it.payload_shares, it.raw_securitiesTransacted)))
        price == parseNumComma(Coalesce(it.insider_price,
                               Coalesce(it.payload_price, it.raw_price)))
    IN IF it.amount_range_max # Null /\ it.amount_range_max.t = "num"
          /\ it.amount_range_max.v >= Threshold
       THEN it.amount_range_max
       ELSE IF ~Truthy(shares) \/ ~Truthy(price) THEN Null
       ELSE IF Times(shares.v, price.v) < Threshold THEN Null
       ELSE Num(Times(shares.v, price.v))

NoCard == [by |-> "none", shown |-> FALSE, kind |-> "none", value |-> Null]

\* FeedCard (latest): an insider item without a kind renders nothing
FeedCard(it) ==
    LET isInsider == it.kind = "insider_trade"
        insiderKind == IF isInsider THEN getInsiderKind(it) ELSE "none"
        insiderAmount == IF isInsider THEN getInsiderValue(it).totalValue ELSE Null
    IN IF isInsider /\ insiderKind = "none"
       THEN [by |-> "FeedCard", shown |-> FALSE, kind |-> "none", value |-> Null]
       ELSE [by |-> "FeedCard", shown |-> TRUE, kind |-> insiderKind,
             value |-> insiderAmount]

\* FeedCard (variant with exclusion codes): an insider item without a kind
\* or without a value renders nothing
FeedCardExcl(it) ==
    LET isInsider == it.kind = "insider_trade"
        insiderKind == IF isInsider THEN getInsiderKindExcl(it) ELSE "none"
        insiderValue == IF isInsider THEN getInsiderValueExcl(it) ELSE Null
    IN IF isInsider /\ (insiderKind = "none" \/ insiderValue = Null)
       THEN [by |-> "FeedCardExcl", shown |-> FALSE, kind |-> "none", value |-> Null]
       ELSE [by |-> "FeedCardExcl", shown |-> TRUE, kind |-> insiderKind,
             value |-> insiderValue]

\* raw of getInsiderKind (components/feed/FeedCard.tsx): trade_type ??
\* insider.transaction_type ?? payload.raw.transactionType ??
\* item.transaction_type ?? ""
rawPlain(it) ==
    TextOf(Coalesce(it.trade_type,
           Coalesce(it.insider_transaction_type,
           Coalesce(it.raw_transactionType, it.transaction_type))))

\* getInsiderKind of components/feed/FeedCard.tsx: coded type only
getInsiderKindPlain(it) ==
    LET t == toUpperCase(rawPlain(it))
    IN IF startsWith(t, S_PDASH) \/ startsWith(t, S_P) \/ includes(t, S_PURCHASE)
       THEN "purchase"
       ELSE IF startsWith(t, S_SDASH) \/ startsWith(t, S_S) \/ includes(t, S_SALE)
       THEN "sale"
       ELSE "none"

\* FeedCard of components/feed/FeedCard.tsx: every item renders; the amount
\* is the reported one
FeedCardAmt(it) ==
    LET isInsider == it.kind = "insider_trade"
    IN [by |-> "FeedCardAmt", shown |-> TRUE,
        kind |-> IF isInsider THEN getInsiderKindPlain(it) ELSE "none",
        value |-> IF isInsider THEN getInsiderValueAmt(it).amt ELSE Null]

\* FeedCard of the variant deriving shares * price: every item renders
FeedCardDerived(it) ==
    LET isInsider == it.kind = "insider_trade"
    IN [by |-> "FeedCardDerived", shown |-> TRUE,
        kind |-> IF isInsider THEN getInsiderKindPlain(it) ELSE "none",
        value |-> IF isInsider THEN getInsiderValueDerived(it).total ELSE Null]

(***************************************************************************)
(* Filter State Store: FeedFilters (version with feed modes)                *)
(***************************************************************************)
E == <<>>                       \* the empty string
Modes == {"congress", "insider", "all"}

\* filtersEqual
filtersEqual(a, b) ==
    /\ a.tape = b.tape
    /\ a.symbol = b.symbol
    /\ a.minAmount = b.minAmount
    /\ a.recentDays = b.recentDays
    /\ a.member = b.member
    /\ a.chamber = b.chamber
    /\ a.party = b.party
    /\ a.tradeType = b.tradeType
    /\ a.transactionType = b.transactionType
    /\ a.role = b.role

\* normalizeValue: (value ?? "").trim(); an absent parameter is ""
\* variant for C6: values are decoded as they are
normalizeValueRaw(value) == value

normalizeValue(value) == trim(value)

\* variant for C5: the insider mode keeps the member filter
clearHiddenFiltersKeepMember(mode, next) ==
    IF mode = "congress"
    THEN [next EXCEPT !.transactionType = E, !.role = E]
    ELSE IF mode = "insider"
    THEN [next EXCEPT !.chamber = E, !.party = E, !.tradeType = E]
    ELSE [next EXCEPT !.member = E, !.chamber = E, !.party = E, !.role = E]

\* clearHiddenFilters
clearHiddenFilters(mode, next) ==
    IF mode = "congress"
    THEN [next EXCEPT !.transactionType = E, !.role = E]
    ELSE IF mode = "insider"
    THEN [next EXCEPT !.member = E, !.chamber = E, !.party = E, !.tradeType = E]
    ELSE [next EXCEPT !.member = E, !.chamber = E, !.party = E, !.role = E]

\* initialFilters: the FilterState decoded from the URL query.  The tape
\* parameter is one of a few whole words, on which trim is the identity.
initialFilters(sp) ==
    [tape |-> IF sp.tape \in Modes THEN sp.tape ELSE "all",
     symbol |-> normalizeValue(sp.symbol),
     minAmount |-> normalizeValue(sp.min_amount),
     recentDays |-> normalizeValue(sp.recent_days),
     member |-> normalizeValue(sp.member),
     chamber |-> normalizeValue(sp.chamber),
     party |-> normalizeValue(sp.party),
     tradeType |-> normalizeValue(sp.trade_type),
     transactionType |-> normalizeValue(sp.transaction_type),
     role |-> normalizeValue(sp.role)]

\* buildParams: the current query with the managed keys deleted and set
\* again from nextFilters (an empty value is not set); every other key of
\* the query (cursor, page, limit, offset) is kept
buildParams(sp, nextFilters) ==
    [sp EXCEPT
        !.tape = nextFilters.tape,
        !.symbol = nextFilters.symbol,
        !.min_amount = nextFilters.minAmount,
        !.recent_days = nextFilters.recentDays,
        !.member = IF nextFilters.tape = "congress" THEN nextFilters.member ELSE E,
        !.chamber = IF nextFilters.tape = "congress" THEN nextFilters.chamber ELSE E,
        !.party = IF nextFilters.tape = "congress" THEN nextFilters.party ELSE E,
        !.trade_type = IF nextFilters.tape \in {"congress", "all"}
                       THEN nextFilters.tradeType ELSE E,
        !.transaction_type = IF nextFilters.tape \in {"insider", "all"}
                             THEN nextFilters.transactionType ELSE E,
        !.role = IF nextFilters.tape = "insider" THEN nextFilters.role ELSE E]

\* variant for C2: the commit writes the filters of the current query again
commitUrlStale(sp, f) == [sp EXCEPT !.cursor = E]

\* the URL the debounced commit writes: buildParams without cursor and
\* cursor_stack (the cursor field stands for both)
commitUrl(sp, f) == [buildParams(sp, f) EXCEPT !.cursor = E]

\* variant for C7: the reset keeps a symbol
resetFiltersKeepSymbol ==
    [tape |-> "all", symbol |-> <<"N">>, minAmount |-> E, recentDays |-> E,
     member |-> E, chamber |-> E, party |-> E, tradeType |-> E, transactionType |-> E,
     role |-> E]

\* the state onReset sets
resetFilters ==
    [tape |-> "all", symbol |-> E, minAmount |-> E, recentDays |-> E, member |-> E,
     chamber |-> E, party |-> E, tradeType |-> E, transactionType |-> E, role |-> E]

NoTimer == [armed |-> FALSE, requestId |-> 0, prefix |-> E, tape |-> "all"]

\* The symbol-suggestion effect, run after a render in which filters.symbol
\* or filters.tape changed from f to g: the previous timeout is cleared;
\* an empty prefix empties the list, any other prefix takes the next
\* request id and schedules the request.
suggestEffect(f, g, sugg, hi) ==
    IF f.symbol = g.symbol /\ f.tape = g.tape
    THEN [sugg |-> sugg, hi |-> hi, ref |-> suggestionsRequestRef, timer |-> suggestTimer]
    ELSE IF trim(g.symbol) = E
    THEN [sugg |-> <<>>, hi |-> 0 - 1, ref |-> suggestionsRequestRef, timer |-> NoTimer]
    ELSE [sugg |-> sugg, hi |-> hi, ref |-> suggestionsRequestRef + 1,
          timer |-> [armed |-> TRUE, requestId |-> suggestionsRequestRef + 1,
                     prefix |-> trim(g.symbol), tape |-> g.tape]]

Op(name, arg, ok) == [op |-> name, arg |-> arg, ok |-> ok]

(***************************************************************************)
(* Bounds and inputs of the store model                                    *)
(***************************************************************************)
MaxEdits == 2      \* user inputs (edits and clicks) explored per behaviour
MaxReq == 2        \* suggestion request ids explored

SYM_N == <<"N">>
SYM_NV == <<"N","V">>
SYM_NX == <<"N","X">>

\* what the user can put into each input
EditValues(key) ==
    IF key = "symbol" THEN {E, SYM_N, SYM_NV}
    ELSE IF key = "minAmount" THEN {E, <<"2">>, <<"5">>}
    ELSE IF key = "recentDays" THEN {E, <<"7">>}
    ELSE IF key = "member" THEN {E, <<"P">>}
    ELSE IF key = "chamber" THEN {E, <<"h">>}
    ELSE IF key = "party" THEN {E, <<"d">>}
    ELSE IF key = "role" THEN {E, <<"C">>}
    ELSE {E, <<"s">>}

\* the inputs rendered for a feed mode
VisibleKeys(tape) ==
    {"symbol", "minAmount", "recentDays"} \cup
    (IF tape = "congress" THEN {"member", "chamber", "party", "tradeType"}
     ELSE IF tape = "insider" THEN {"transactionType", "role"}
     ELSE {"tradeType", "transactionType"})

\* lists the suggestion endpoint may answer with
SuggestResults == {<<>>, <<SYM_NV, SYM_NX>>}

EmptyUrl ==
    [tape |-> "", symbol |-> E, min_amount |-> E, recent_days |-> E, member |-> E,
     chamber |-> E, party |-> E, trade_type |-> E, transaction_type |-> E, role |-> E,
     cursor |-> E, page |-> 0, limit |-> 0, offset |-> 0 - 1]

\* the URLs the page is opened with
InitUrls ==
    {EmptyUrl,
     [EmptyUrl EXCEPT !.tape = "congress", !.member = <<"P">>,
                      !.min_amount = <<"2">>, !.cursor = <<"c">>],
     [EmptyUrl EXCEPT !.symbol = <<" ", "N">>]}

\* the item on screen while the store is exercised
IdleItem ==
    [kind |-> "congress_trade", trade_type |-> Null, insider_transaction_type |-> Null,
     payload_transaction_type |-> Null, raw_transactionType |-> Null,
     transaction_type |-> Null, raw_acquisitionOrDisposition |-> Null,
     amount_range_min |-> Null, amount_min |-> Null, amount_range_max |-> Null,
     amount_max |-> Null, insider_shares |-> Null, payload_shares |-> Null,
     raw_securitiesTransacted |-> Null, insider_price |-> Null,
     payload_price |-> Null, raw_price |-> Null]

\* the signals page opened without a query string
NoSignalsParams == [preset |-> "", sort |-> "", limit |-> 0, offset |-> 0 - 1]

\* the response FeedPage starts from: let events = { items: [], next_cursor: null }
NoEvents == [items |-> <<>>, next_cursor |-> Null]

\* FeedPage not rendered
FeedIdle == upstream = <<>> /\ events = NoEvents

\* SignalsClient before its first render
SignalsIdle ==
    /\ FeedIdle
    /\ signalsUrl = NoSignalsParams
    /\ items = <<>> /\ debug = Null
    /\ loading = FALSE /\ loadingMore = FALSE /\ errorMessage = Null
    /\ fetches = {}

StoreInit ==
    /\ SignalsIdle
    /\ searchParams \in InitUrls
    /\ filters = initialFilters(searchParams)
    /\ pendingNav = <<>>
    /\ commitTimer = TRUE
    /\ symbolSuggestions = <<>>
    /\ highlightedSuggestionIndex = 0 - 1
    /\ showSymbolSuggestions = FALSE
    /\ isSuggestingSymbol = FALSE
    /\ suggestionsRequestRef = (IF trim(filters.symbol) = E THEN 0 ELSE 1)
    /\ suggestTimer = (IF trim(filters.symbol) = E THEN NoTimer
                       ELSE [armed |-> TRUE, requestId |-> 1,
                             prefix |-> trim(filters.symbol), tape |-> filters.tape])
    /\ inflight = {}
    /\ page = 1
    /\ pageSize = 50
    /\ total \in {0 - 1, 60}
    /\ edits = 0 /\ writes = 0 /\ burst = 0
    /\ lastOp = Op("mount", 0, TRUE)

\* the state once the symbol input holding "N" has been focused and its
\* suggestion request has been answered with two candidates
ListLoaded ==
    /\ SignalsIdle
    /\ searchParams = [EmptyUrl EXCEPT !.tape = "all", !.symbol = SYM_N, !.cursor = <<"c">>]
    /\ filters = initialFilters(searchParams)
    /\ pendingNav = <<>>
    /\ commitTimer = FALSE
    /\ symbolSuggestions = <<SYM_NV, SYM_NX>>
    /\ highlightedSuggestionIndex = 0
    /\ showSymbolSuggestions = TRUE
    /\ isSuggestingSymbol = FALSE
    /\ suggestionsRequestRef = 1
    /\ suggestTimer = NoTimer
    /\ inflight = {}
    /\ page = 1
    /\ pageSize = 50
    /\ total = 0 - 1
    /\ edits = 0 /\ writes = 0 /\ burst = 0
    /\ lastOp = Op("response", 1, TRUE)

Init == (StoreInit \/ ListLoaded) /\ item = IdleItem /\ card = NoCard

(***************************************************************************)
(* Handlers and effects of FeedFilters                                     *)
(***************************************************************************)
\* setFilters(g) and the effects that follow the re-render: the debounced
\* commit is re-scheduled, the suggestion effect runs when its deps changed
ApplyFilters(g, sugg, hi) ==
    LET e == suggestEffect(filters, g, sugg, hi)
    IN /\ e.ref <= MaxReq
       /\ filters' = g
       /\ commitTimer' = TRUE
       /\ symbolSuggestions' = e.sugg
       /\ highlightedSuggestionIndex' = e.hi
       /\ suggestionsRequestRef' = e.ref
       /\ suggestTimer' = e.timer

\* router.replace(url) / following a link: the navigation is requested now
\* and applied later
Navigate(url) ==
    /\ pendingNav' = Append(pendingNav, url)
    /\ writes' = writes + 1

\* update(key): onChange of an input
update(key, value) ==
    /\ edits < MaxEdits
    /\ key \in VisibleKeys(filters.tape)
    /\ value # filters[key]
    /\ ApplyFilters([filters EXCEPT ![key] = value],
                    symbolSuggestions, highlightedSuggestionIndex)
    /\ edits' = edits + 1
    /\ burst' = burst + 1
    /\ lastOp' = Op("update", 0, TRUE)
    /\ UNCHANGED <<feedVars, signalVars, searchParams, pendingNav, writes, showSymbolSuggestions,
                   isSuggestingSymbol, inflight, pagerVars, clsVars>>

\* setMode
setMode(mode) ==
    /\ edits < MaxEdits
    /\ ApplyFilters(clearHiddenFilters(mode, [filters EXCEPT !.tape = mode]),
                    symbolSuggestions, highlightedSuggestionIndex)
    /\ edits' = edits + 1
    /\ burst' = burst + 1
    /\ lastOp' = Op("setMode", 0, TRUE)
    /\ UNCHANGED <<feedVars, signalVars, searchParams, pendingNav, writes, showSymbolSuggestions,
                   isSuggestingSymbol, inflight, pagerVars, clsVars>>

\* onReset; the button is disabled while a transition is pending
onReset ==
    /\ edits < MaxEdits
    /\ pendingNav = <<>>
    /\ ApplyFilters(resetFilters, symbolSuggestions, highlightedSuggestionIndex)
    /\ showSymbolSuggestions' = FALSE
    /\ edits' = edits + 1
    /\ burst' = burst + 1
    /\ lastOp' = Op("onReset", 0, TRUE)
    /\ UNCHANGED <<feedVars, signalVars, searchParams, pendingNav, writes, isSuggestingSymbol, inflight,
                   pagerVars, clsVars>>

\* the debounced commit: the timeout set by the commit effect expires
debounceFire ==
    /\ commitTimer
    /\ commitTimer' = FALSE
    /\ burst' = 0
    /\ IF filtersEqual(filters, initialFilters(searchParams))
       THEN /\ UNCHANGED <<feedVars, signalVars, pendingNav, writes>>
            /\ lastOp' = Op("debounce", burst, FALSE)
       ELSE /\ Navigate(commitUrl(searchParams, filters))
            /\ lastOp' = Op("debounce", burst, TRUE)
    /\ UNCHANGED <<feedVars, signalVars, filters, searchParams, suggestVars, pagerVars, edits, clsVars>>

\* a requested navigation is applied: useSearchParams yields the new query,
\* initialFilters is recomputed and the sync effect sets filters to it
navComplete ==
    /\ pendingNav # <<>>
    /\ pendingNav' = Tail(pendingNav)
    /\ searchParams' = Head(pendingNav)
    /\ IF Head(pendingNav) = searchParams
       THEN /\ UNCHANGED <<feedVars, signalVars, filters, commitTimer, symbolSuggestions,
                           highlightedSuggestionIndex, suggestionsRequestRef,
                           suggestTimer>>
            /\ lastOp' = Op("nav", burst, FALSE)
       ELSE /\ ApplyFilters(initialFilters(Head(pendingNav)),
                            symbolSuggestions, highlightedSuggestionIndex)
            /\ lastOp' = Op("nav", burst, TRUE)
    /\ UNCHANGED <<feedVars, signalVars, showSymbolSuggestions, isSuggestingSymbol, inflight, pagerVars,
                   edits, writes, burst, clsVars>>

\* variant for C13: the selection is left to the debounced commit
selectSymbolSuggestionDeferred(symbol) ==
    /\ edits < MaxEdits
    /\ ApplyFilters([filters EXCEPT !.symbol = symbol], symbolSuggestions, 0 - 1)
    /\ showSymbolSuggestions' = FALSE
    /\ edits' = edits + 1
    /\ burst' = burst + 1
    /\ lastOp' = Op("select", 0, TRUE)
    /\ UNCHANGED <<feedVars, signalVars, searchParams, pendingNav, writes, isSuggestingSymbol, inflight,
                   pagerVars, clsVars>>

\* selectSymbolSuggestion: the symbol is set and written to the URL at once
selectSymbolSuggestion(symbol) ==
    /\ edits < MaxEdits
    /\ ApplyFilters([filters EXCEPT !.symbol = symbol], symbolSuggestions, 0 - 1)
    /\ showSymbolSuggestions' = FALSE
    /\ Navigate(buildParams(searchParams, [filters EXCEPT !.symbol = symbol]))
    /\ edits' = edits + 1
    /\ burst' = burst + 1
    /\ lastOp' = Op("select", 0, TRUE)
    /\ UNCHANGED <<feedVars, signalVars, searchParams, isSuggestingSymbol, inflight, pagerVars, clsVars>>

\* a click on a candidate of the open list
clickSuggestion ==
    /\ showSymbolSuggestions
    /\ \E i \in 1..Len(symbolSuggestions) : selectSymbolSuggestion(symbolSuggestions[i])

\* variant for C14: ArrowDown stops at the last candidate
arrowDownClamped(current, n) == IF current + 1 >= n THEN n - 1 ELSE current + 1

\* the index ArrowDown highlights: (current + 1) % symbolSuggestions.length
arrowDown(current, n) == (current + 1) % n

\* the index ArrowUp highlights
arrowUp(current, n) == IF current <= 0 THEN n - 1 ELSE current - 1

\* onSymbolKeyDown
onSymbolKeyDown(key) ==
    /\ showSymbolSuggestions /\ Len(symbolSuggestions) # 0
    /\ \/ /\ key = "ArrowDown"
          /\ highlightedSuggestionIndex' =
                 arrowDown(highlightedSuggestionIndex, Len(symbolSuggestions))
          /\ lastOp' = Op("ArrowDown", highlightedSuggestionIndex, TRUE)
          /\ UNCHANGED <<feedVars, signalVars, storeVars, symbolSuggestions, showSymbolSuggestions,
                         isSuggestingSymbol, suggestionsRequestRef, suggestTimer,
                         inflight, pagerVars, edits, writes, burst, clsVars>>
       \/ /\ key = "ArrowUp"
          /\ highlightedSuggestionIndex' =
                 arrowUp(highlightedSuggestionIndex, Len(symbolSuggestions))
          /\ lastOp' = Op("ArrowUp", highlightedSuggestionIndex, TRUE)
          /\ UNCHANGED <<feedVars, signalVars, storeVars, symbolSuggestions, showSymbolSuggestions,
                         isSuggestingSymbol, suggestionsRequestRef, suggestTimer,
                         inflight, pagerVars, edits, writes, burst, clsVars>>
       \/ /\ key = "Enter"
          /\ LET index == IF highlightedSuggestionIndex >= 0
                          THEN highlightedSuggestionIndex ELSE 0
             IN /\ index + 1 <= Len(symbolSuggestions)
                /\ selectSymbolSuggestion(symbolSuggestions[index + 1])
       \/ /\ key = "Escape"
          /\ showSymbolSuggestions' = FALSE
          /\ highlightedSuggestionIndex' = 0 - 1
          /\ lastOp' = Op("Escape", 0, TRUE)
          /\ UNCHANGED <<feedVars, signalVars, storeVars, symbolSuggestions, isSuggestingSymbol,
                         suggestionsRequestRef, suggestTimer, inflight, pagerVars,
                         edits, writes, burst, clsVars>>

\* onFocus of the symbol input
onFocus ==
    /\ ~showSymbolSuggestions
    /\ showSymbolSuggestions' = TRUE
    /\ lastOp' = Op("focus", 0, TRUE)
    /\ UNCHANGED <<feedVars, signalVars, storeVars, symbolSuggestions, highlightedSuggestionIndex,
                   isSuggestingSymbol, suggestionsRequestRef, suggestTimer, inflight,
                   pagerVars, edits, writes, burst, clsVars>>

\* onBlur of the symbol input (its 120 ms timeout has expired)
onBlur ==
    /\ showSymbolSuggestions
    /\ showSymbolSuggestions' = FALSE
    /\ lastOp' = Op("blur", 0, TRUE)
    /\ UNCHANGED <<feedVars, signalVars, storeVars, symbolSuggestions, highlightedSuggestionIndex,
                   isSuggestingSymbol, suggestionsRequestRef, suggestTimer, inflight,
                   pagerVars, edits, writes, burst, clsVars>>

(***************************************************************************)
(* Suggestion Engine: the timeout callback of the suggestion effect        *)
(***************************************************************************)
\* the suggestion timeout expires: the request is dispatched
suggestDispatch ==
    /\ suggestTimer.armed
    /\ isSuggestingSymbol' = TRUE
    /\ inflight' = inflight \cup {[requestId |-> suggestTimer.requestId,
                                   prefix |-> suggestTimer.prefix]}
    /\ suggestTimer' = NoTimer
    /\ lastOp' = Op("dispatch", suggestTimer.requestId, TRUE)
    /\ UNCHANGED <<feedVars, signalVars, storeVars, symbolSuggestions, highlightedSuggestionIndex,
                   showSymbolSuggestions, suggestionsRequestRef, pagerVars,
                   edits, writes, burst, clsVars>>

\* whether the callback treats its request as stale
\* variant for C1: a response is never taken for stale
isStaleNever(requestId) == FALSE

\* the test made when a response arrives
isStale(requestId) == suggestionsRequestRef # requestId

\* suggestSymbols resolves with its items
suggestResponse(r, results) ==
    /\ r \in inflight
    /\ inflight' = inflight \ {r}
    /\ IF isStale(r.requestId)
       THEN /\ UNCHANGED <<feedVars, signalVars, symbolSuggestions, highlightedSuggestionIndex,
                           isSuggestingSymbol>>
            /\ lastOp' = Op("response", r.requestId, FALSE)
       ELSE /\ symbolSuggestions' = results
            /\ highlightedSuggestionIndex' = (IF Len(results) > 0 THEN 0 ELSE 0 - 1)
            /\ isSuggestingSymbol' = FALSE
            /\ lastOp' = Op("response", r.requestId, TRUE)
    /\ UNCHANGED <<feedVars, signalVars, storeVars, showSymbolSuggestions, suggestionsRequestRef,
                   suggestTimer, pagerVars, edits, writes, burst, clsVars>>

\* suggestSymbols rejects
suggestFail(r) ==
    /\ r \in inflight
    /\ inflight' = inflight \ {r}
    /\ IF isStale(r.requestId)
       THEN /\ UNCHANGED <<feedVars, signalVars, symbolSuggestions, highlightedSuggestionIndex,
                           isSuggestingSymbol>>
            /\ lastOp' = Op("failure", r.requestId, FALSE)
       ELSE /\ symbolSuggestions' = <<>>
            /\ highlightedSuggestionIndex' = 0 - 1
            /\ isSuggestingSymbol' = FALSE
            /\ lastOp' = Op("failure", r.requestId, TRUE)
    /\ UNCHANGED <<feedVars, signalVars, storeVars, showSymbolSuggestions, suggestionsRequestRef,
                   suggestTimer, pagerVars, edits, writes, burst, clsVars>>

(***************************************************************************)
(* Pager: FeedList and the "Load more" link of the feed page               *)
(***************************************************************************)
Max(a, b) == IF a >= b THEN a ELSE b
Min(a, b) == IF a <= b THEN a ELSE b
CeilDiv(a, b) == (a + b - 1) \div b

initialTotalPages == 1   \* the default of the totalPages prop

\* totalPages
totalPages ==
    IF total > 0 THEN Max(1, CeilDiv(total, pageSize)) ELSE initialTotalPages

\* updateParams
updateParams(nextPage, nextPageSize) ==
    Navigate([searchParams EXCEPT !.page = nextPage, !.limit = nextPageSize,
                                  !.offset = (nextPage - 1) * nextPageSize,
                                  !.cursor = E])

\* goToPage
goToPage(p) ==
    LET next == Min(Max(1, p), totalPages)
    IN /\ edits < MaxEdits
       /\ page' = next
       /\ updateParams(next, pageSize)
       /\ edits' = edits + 1
       /\ lastOp' = Op("goToPage", next, TRUE)
       /\ UNCHANGED <<feedVars, signalVars, filters, searchParams, commitTimer, suggestVars, pageSize, total,
                      burst, clsVars>>

\* the four pager buttons with their disabled conditions
pagerButton ==
    \/ page > 1 /\ goToPage(1)
    \/ page > 1 /\ goToPage(page - 1)
    \/ ~(total # 0 - 1 /\ page >= totalPages) /\ goToPage(page + 1)
    \/ ~(total # 0 - 1 /\ page >= totalPages) /\ goToPage(totalPages)

\* variant for C16: the page is kept when the page size changes
changePageSizeKeepPage(size) ==
    /\ edits < MaxEdits
    /\ size # pageSize
    /\ pageSize' = size
    /\ page' = page
    /\ updateParams(page, size)
    /\ edits' = edits + 1
    /\ lastOp' = Op("changePageSize", size, TRUE)
    /\ UNCHANGED <<feedVars, signalVars, filters, searchParams, commitTimer, suggestVars, total,
                   burst, clsVars>>

\* changePageSize
changePageSize(size) ==
    /\ edits < MaxEdits
    /\ size # pageSize
    /\ pageSize' = size
    /\ page' = 1
    /\ updateParams(1, size)
    /\ edits' = edits + 1
    /\ lastOp' = Op("changePageSize", size, TRUE)
    /\ UNCHANGED <<feedVars, signalVars, filters, searchParams, commitTimer, suggestVars, total,
                   burst, clsVars>>

\* the href of "Load more": the feed parameters of the current query,
\* trimmed, and the next cursor
loadMoreUrl(sp, c) ==
    [EmptyUrl EXCEPT
        !.symbol = trim(sp.symbol), !.member = trim(sp.member),
        !.chamber = trim(sp.chamber), !.party = trim(sp.party),
        !.trade_type = trim(sp.trade_type), !.min_amount = trim(sp.min_amount),
        !.recent_days = trim(sp.recent_days), !.cursor = c]

\* the user follows "Load more" (rendered when the response has a next cursor)
loadMore ==
    /\ edits < MaxEdits
    /\ Navigate(loadMoreUrl(searchParams, <<"c">>))
    /\ edits' = edits + 1
    /\ lastOp' = Op("loadMore", 0, TRUE)
    /\ UNCHANGED <<feedVars, signalVars, filters, searchParams, commitTimer, suggestVars, pagerVars,
                   burst, clsVars>>

\* The store and the pager: every filter handler, the debounced commit,
\* navigation, and the pager; the suggestion request stays scheduled.
Next ==
    \/ \E key \in {"symbol", "minAmount", "recentDays", "member", "chamber", "party",
                   "tradeType", "transactionType", "role"} :
           \E value \in EditValues(key) : update(key, value)
    \/ \E mode \in Modes : setMode(mode)
    \/ onReset
    \/ debounceFire
    \/ navComplete
    \/ clickSuggestion
    \/ pagerButton
    \/ \E size \in {25, 50, 100} : changePageSize(size)
    \/ loadMore

Spec == Init /\ [][Next]_vars

\* The suggestion engine: typing into the symbol input, the feed mode, the
\* suggestion request and its responses, the keyboard, and the commits.
SuggestInit ==
    /\ StoreInit /\ searchParams = [EmptyUrl EXCEPT !.symbol = <<" ", "N">>]
    /\ total = 0 - 1
    /\ item = IdleItem /\ card = NoCard

SuggestNext ==
    \/ \E value \in EditValues("symbol") : update("symbol", value)
    \/ \E mode \in Modes : setMode(mode)
    \/ debounceFire
    \/ navComplete
    \/ clickSuggestion
    \/ \E key \in {"ArrowDown", "ArrowUp", "Enter", "Escape"} : onSymbolKeyDown(key)
    \/ onFocus
    \/ onBlur
    \/ suggestDispatch
    \/ \E r \in inflight : \E results \in SuggestResults : suggestResponse(r, results)
    \/ \E r \in inflight : suggestFail(r)

SpecSuggest == SuggestInit /\ [][SuggestNext]_vars

\* C28: whenever no suggestion request is scheduled and none is in flight,
\* the "suggesting" flag is false.
C28_SuggestingFlagClears ==
    (~suggestTimer.armed /\ inflight = {}) => ~isSuggestingSymbol

(***************************************************************************)
(* Classifier inputs                                                       *)
(***************************************************************************)
T_PPURCHASE == <<"P","-","P","u","r","c","h","a","s","e">>
T_SSALE == <<"S","-","S","a","l","e">>
T_AAWARD == <<"A","-","A","w","a","r","d">>
T_MEXEMPT == <<"M","-","E","x","e","m","p","t">>
T_GGIFT == <<"G","-","G","i","f","t">>
T_STOCKAWARD == <<"S","t","o","c","k"," ","A","w","a","r","d">>
T_OPTION == <<"o","p","t","i","o","n"," ","e","x","e","r","c","i","s","e">>
T_OPENSALE == <<"o","p","e","n"," ","m","k","t"," ","s","a","l","e">>

TxTypes ==
    {Null, Str(<<>>), Str(T_PPURCHASE), Str(T_SSALE), Str(T_AAWARD), Str(T_MEXEMPT),
     Str(T_GGIFT), Str(T_STOCKAWARD), Str(T_OPTION), Str(T_OPENSALE)}

AdFlags == {Null, Str(<<"A">>), Str(<<"D">>), Str(<<"d">>)}

N_1000 == <<"1",",","0","0","0">>
N_DOLLAR2550 == <<"$","2","5",".","5","0">>
N_2550 == <<"2","5",".","5","0">>

Items ==
    [kind : {"insider_trade", "congress_trade"},
     trade_type : {Null},
     insider_transaction_type : {Null},
     payload_transaction_type : {Null},
     raw_transactionType : TxTypes,
     transaction_type : {Null, Str(T_SSALE)},
     raw_acquisitionOrDisposition : AdFlags,
     amount_range_min : {Null, Num(0 - 500), Num(0), Num(1500000)},
     amount_min : {Null},
     amount_range_max : {Null, Num(2000000)},
     amount_max : {Null},
     insider_shares : {Null},
     payload_shares : {Null, Str(N_1000), Num(0), Num(0 - 100000)},
     raw_securitiesTransacted : {Null},
     insider_price : {Null},
     payload_price : {Null, Str(N_DOLLAR2550), Str(N_2550), Num(0 - 2550)},
     raw_price : {Null}]

ClsInit == item \in Items /\ card = NoCard /\ StoreInit /\ searchParams = EmptyUrl /\ total = 0 - 1

\* FeedList renders the item with the latest FeedCard
Render == card = NoCard /\ card' = FeedCard(item) /\ UNCHANGED <<feedVars, signalVars, item, storeVars, suggestVars, pagerVars, histVars>>

\* ... with the FeedCard variant that knows exclusion codes
RenderExcl == card = NoCard /\ card' = FeedCardExcl(item) /\ UNCHANGED <<feedVars, signalVars, item, storeVars, suggestVars, pagerVars, histVars>>

\* ... with components/feed/FeedCard.tsx
RenderAmt == card = NoCard /\ card' = FeedCardAmt(item) /\ UNCHANGED <<feedVars, signalVars, item, storeVars, suggestVars, pagerVars, histVars>>

\* ... with the FeedCard variant deriving shares * price
RenderDerived == card = NoCard /\ card' = FeedCardDerived(item) /\ UNCHANGED <<feedVars, signalVars, item, storeVars, suggestVars, pagerVars, histVars>>

ClsNext == Render \/ RenderExcl \/ RenderAmt \/ RenderDerived

SpecCls == ClsInit /\ [][ClsNext]_vars

(***************************************************************************)
(* Claims about the classifier                                             *)
(***************************************************************************)
IsInsider == item.kind = "insider_trade"

\* the transaction-type text of the record (its raw.transactionType when
\* no other type field is present)
TypeText == toUpperCase(TextOf(item.raw_transactionType))

ExclusionCoded ==
    /\ item.transaction_type = Null
    /\ \E code \in {S_EXEMPT, S_INKIND, S_AWARD, S_GRANT, S_OPTION, S_RSU} :
           includes(TypeText, code)

\* C8: an insider record whose transaction type matches an exclusion code
\* (grant, award, option, RSU, exempt, in-kind) gets no direction and is
\* not emitted, whatever its acquisition/disposition flag and first letter.
C8_ExclusionDropsRecord ==
    (card.by \in {"FeedCard", "FeedCardExcl"} /\ IsInsider /\ ExclusionCoded)
        => (~card.shown /\ card.kind = "none")

RecognizedCode ==
    \/ startsWith(TypeText, S_P) \/ includes(TypeText, S_PURCHASE)
    \/ startsWith(TypeText, S_S) \/ includes(TypeText, S_SALE)

FlagText == toUpperCase(TextOf(item.raw_acquisitionOrDisposition))

C10_ValueAbsentOrNonNegative ==
    (card.by # "none" /\ card.shown /\ IsInsider)
        => /\ card.value = Null \/ card.value.v >= 0
           /\ (card.by = "FeedCardDerived"
                 /\ (item.payload_shares = Null \/ item.payload_price = Null))
                 => card.value = Null

\* the amount, share count and price the record reports
ReportedAmount ==
    parseNum(Coalesce(item.amount_range_min,
             Coalesce(item.amount_min,
             Coalesce(item.amount_range_max, item.amount_max))))

ReportedShares == parseNum(Coalesce(item.payload_shares, item.raw_securitiesTransacted))
ReportedPrice ==
    parseNum(Coalesce(item.insider_price, Coalesce(item.payload_price, item.raw_price)))

\* C11: the counted value of an emitted insider record is the reported
\* amount when there is one, else shares x price when both are present and
\* strictly positive, else absent.
C11_ValueDerivation ==
    (card.by = "FeedCard" /\ card.shown /\ IsInsider)
        => card.value =
               (IF ReportedAmount # Null THEN ReportedAmount
                ELSE IF ReportedShares # Null /\ ReportedPrice # Null
                        /\ ReportedShares.v > 0 /\ ReportedPrice.v > 0
                THEN Num(Times(ReportedShares.v, ReportedPrice.v))
                ELSE Null)

\* the direction a FeedCard variant resolves for the item on screen
ResolvedKind ==
    IF card.by = "FeedCardExcl" THEN getInsiderKindExcl(item)
    ELSE IF card.by = "FeedCard" THEN getInsiderKind(item)
    ELSE getInsiderKindPlain(item)

\* C29: an insider record whose direction resolves is emitted whatever its
\* counted value: without a value (or with one below the threshold) the
\* card is still rendered, with no value to show.
C29_ValuelessRecordEmitted ==
    (IsInsider /\ card.by # "none" /\ ResolvedKind # "none") => card.shown

(***************************************************************************)
(* Disclosure lag of a congress record: mapEventToFeedItem, daysBetweenYMD *)
(* and the "Filed after" cell of FeedCard                                  *)
(***************************************************************************)
\* s.slice(0, 10)
slice10(s) == SubSeq(s, 1, IF Len(s) < 10 THEN Len(s) ELSE 10)

\* s.split(sep)
RECURSIVE split(_, _)
split(s, sep) ==
    IF \A i \in 1..Len(s) : s[i] # sep
    THEN <<s>>
    ELSE LET k == CHOOSE i \in 1..Len(s) : s[i] = sep /\ \A j \in 1..(i - 1) : s[j] # sep
         IN <<SubSeq(s, 1, k - 1)>> \o split(SubSeq(s, k + 1, Len(s)), sep)

\* Number(part) for the parts that occur: blank is 0, a run of digits its
\* value, anything else NaN
NumberInt(part) ==
    LET c == trim(part)
    IN IF c = <<>> THEN Num(0) ELSE IF AllDigits(c) THEN Num(DigitsVal(c)) ELSE NaN

\* the i-th element of parts.map(Number); Null stands for undefined
PartNumber(parts, i) == IF i <= Len(parts) THEN NumberInt(parts[i]) ELSE Null

\* days from 1970-01-01 to the civil date y-m-d (m in 1..12)
DaysFromCivil(y, m, d) ==
    LET yy == IF m <= 2 THEN y - 1 ELSE y
        era == yy \div 400
        yoe == yy - era * 400
        mp == IF m > 2 THEN m - 3 ELSE m + 9
        doy == (153 * mp + 2) \div 5 + d - 1
        doe == yoe * 365 + yoe \div 4 - yoe \div 100 + doy
    IN era * 146097 + doe - 719468

\* Date.UTC(year, monthIndex, day) in days: a month index past 11 and a day
\* past the end of the month roll over, a year in 0..99 counts from 1900
DateUTC(year, monthIndex, day) ==
    LET y0 == IF year <= 99 THEN 1900 + year ELSE year
    IN DaysFromCivil(y0 + monthIndex \div 12, (monthIndex % 12) + 1, 1) + day - 1

\* daysBetweenYMD
daysBetweenYMD(a, b) ==
    IF a = Null \/ b = Null \/ a.s = <<>> \/ b.s = <<>> THEN Null
    ELSE LET pa == split(slice10(a.s), "-")
             pb == split(slice10(b.s), "-")
             ay == PartNumber(pa, 1)
             am == PartNumber(pa, 2)
             ad == PartNumber(pa, 3)
             by == PartNumber(pb, 1)
             bm == PartNumber(pb, 2)
             bd == PartNumber(pb, 3)
         IN IF ~Truthy(ay) \/ ~Truthy(am) \/ ~Truthy(ad)
               \/ ~Truthy(by) \/ ~Truthy(bm) \/ ~Truthy(bd)
            THEN Null
            ELSE Num(DateUTC(by.v, bm.v - 1, bd.v) - DateUTC(ay.v, am.v - 1, ad.v))

\* asTrimmedString
asTrimmedString(value) ==
    IF value # Null /\ value.t = "str" /\ trim(value.s) # <<>>
    THEN Str(trim(value.s)) ELSE Null

\* the trade_date and report_date mapEventToFeedItem gives a congress item
mapEventToFeedItem(event) ==
    [trade_date |-> Coalesce(asTrimmedString(event.payload_trade_date), event.ts),
     report_date |-> Coalesce(asTrimmedString(event.payload_report_date), event.ts)]

\* variant for C18: every computed lag is displayed
filedAfterAny(lagDays) == lagDays

\* the "Filed after" cell: the days, or Null for the dash
filedAfter(lagDays) ==
    IF lagDays # Null /\ lagDays.v >= 0 THEN lagDays ELSE Null

D_0101 == <<"2","0","2","4","-","0","1","-","0","1">>
D_0110 == <<"2","0","2","4","-","0","1","-","1","0">>
D_1231 == <<"2","0","2","3","-","1","2","-","3","1">>
D_1345 == <<"2","0","2","4","-","1","3","-","4","5">>
D_0230 == <<"2","0","2","4","-","0","2","-","3","0">>
D_0010 == <<"2","0","2","4","-","0","0","-","1","0">>
D_SLASH == <<"0","1","/","1","0","/","2","0","2","4">>
D_SHORT == <<"2","0","2","4","-","0","1">>
D_BLANK == <<" ">>
TS_0301 == <<"2","0","2","4","-","0","3","-","0","1","T","1","2",":","0","0",":","0","0","Z">>

PayloadDates ==
    {Null, Str(D_0101), Str(D_0110), Str(D_1231), Str(D_1345), Str(D_0230),
     Str(D_0010), Str(D_SLASH), Str(D_SHORT), Str(D_BLANK)}

Events ==
    [kind : {"congress_trade"},
     payload_trade_date : PayloadDates,
     payload_report_date : PayloadDates,
     ts : {Str(TS_0301)}]

LagInit ==
    /\ item \in Events /\ card = NoCard
    /\ StoreInit /\ searchParams = EmptyUrl /\ total = 0 - 1

\* the page maps the event to a feed item
MapEvent ==
    /\ card = NoCard
    /\ card' = [by |-> "mapEventToFeedItem", shown |-> FALSE, kind |-> "none",
                value |-> Null,
                trade_date |-> mapEventToFeedItem(item).trade_date,
                report_date |-> mapEventToFeedItem(item).report_date,
                lagDays |-> Null, filedAfter |-> Null]
    /\ UNCHANGED <<feedVars, signalVars, item, storeVars, suggestVars, pagerVars, histVars>>

\* FeedCard renders the congress item
RenderLag ==
    /\ card.by = "mapEventToFeedItem"
    /\ LET lagDays == daysBetweenYMD(card.trade_date, card.report_date)
       IN card' = [card EXCEPT !.by = "FeedCardLag", !.shown = TRUE,
                               !.lagDays = lagDays,
                               !.filedAfter = filedAfter(lagDays)]
    /\ UNCHANGED <<feedVars, signalVars, item, storeVars, suggestVars, pagerVars, histVars>>

LagNext == MapEvent \/ RenderLag

SpecLag == LagInit /\ [][LagNext]_vars

\* a date of the form yyyy-mm-dd..., month 1..12, day within the month
DaysInMonth(y, m) ==
    IF m = 2 THEN (IF y % 4 = 0 /\ (y % 100 # 0 \/ y % 400 = 0) THEN 29 ELSE 28)
    ELSE IF m \in {4, 6, 9, 11} THEN 30 ELSE 31

WellFormedDate(v) ==
    /\ v # Null /\ v.t = "str" /\ Len(v.s) >= 10
    /\ v.s[5] = "-" /\ v.s[8] = "-"
    /\ AllDigits(SubSeq(v.s, 1, 4)) /\ AllDigits(SubSeq(v.s, 6, 7))
    /\ AllDigits(SubSeq(v.s, 9, 10))
    /\ DigitsVal(SubSeq(v.s, 6, 7)) \in 1..12
    /\ DigitsVal(SubSeq(v.s, 9, 10))
           \in 1..DaysInMonth(DigitsVal(SubSeq(v.s, 1, 4)), DigitsVal(SubSeq(v.s, 6, 7)))

DayNumber(v) ==
    DaysFromCivil(DigitsVal(SubSeq(v.s, 1, 4)), DigitsVal(SubSeq(v.s, 6, 7)),
                  DigitsVal(SubSeq(v.s, 9, 10)))

\* C17: the lag of a rendered congress record is the number of days from
\* its trade date to its disclosure date when both are well-formed dates,
\* and null when either is missing or malformed.
C17_LagDays ==
    card.by = "FeedCardLag"
        => card.lagDays =
               (IF WellFormedDate(item.payload_trade_date)
                   /\ WellFormedDate(item.payload_report_date)
                THEN Num(DayNumber(item.payload_report_date)
                         - DayNumber(item.payload_trade_date))
                ELSE Null)

\* C18: a negative lag is not displayed, and what is displayed is the
\* computed lag.
C18_NegativeLagSuppressed ==
    card.by = "FeedCardLag"
        => /\ (card.lagDays # Null /\ card.lagDays.v < 0) => card.filedAfter = Null
           /\ card.filedAfter # Null
                  => (card.filedAfter = card.lagDays /\ card.filedAfter.v >= 0)

\* reported nine days before the trade: the lag is -9 and the cell is a dash
C18_Witness ==
    /\ card.by = "FeedCardLag"
    /\ item.payload_trade_date = Str(D_0110) /\ item.payload_report_date = Str(D_0101)
    /\ card.lagDays = Num(0 - 9)
    /\ card.filedAfter = Null

(***************************************************************************)
(* Insider role label                                                      *)
(***************************************************************************)
\* \w of a JavaScript regular expression
IsWordChar(c) ==
    \/ \E i \in 1..26 : Letters[i] = c \/ Capitals[i] = c
    \/ IsDigit(c) \/ c = "_"

\* \b before position i of s (i in 1..Len(s)+1)
wordBoundary(s, i) ==
    (i > 1 /\ IsWordChar(s[i - 1])) # (i <= Len(s) /\ IsWordChar(s[i]))

\* /\bP\b/.test(s) for a literal P
testWord(s, p) ==
    \E i \in 1..Len(s) :
        /\ i + Len(p) - 1 <= Len(s)
        /\ SubSeq(s, i, i + Len(p) - 1) = p
        /\ wordBoundary(s, i) /\ wordBoundary(s, i + Len(p))

\* /\bA\s+B\b/.test(s) for literals A and B
testWords(s, a, b) ==
    \E i \in 1..Len(s) : \E j \in 1..Len(s) :
        /\ i + Len(a) - 1 <= Len(s) /\ j + Len(b) - 1 <= Len(s)
        /\ SubSeq(s, i, i + Len(a) - 1) = a /\ wordBoundary(s, i)
        /\ j > i + Len(a)
        /\ \A k \in (i + Len(a))..(j - 1) : s[k] = " "
        /\ SubSeq(s, j, j + Len(b) - 1) = b /\ wordBoundary(s, j + Len(b))


\* the title getInsiderRoleBadge reads: the first field that is not nullish
roleRaw(it) ==
    Coalesce(it.insider_role,
    Coalesce(it.raw_typeOfOwner,
    Coalesce(it.raw_officerTitle,
    Coalesce(it.raw_insiderRole,
    Coalesce(it.raw_position, Str(<<"I","N","S","I","D","E","R">>))))))

\* the rule table of getInsiderRoleBadge, tested in this order
roleBadgeOf(s) ==
    IF testWord(s, <<"C","H","I","E","F"," ","E","X","E","C","U","T","I","V","E"," ","O","F","F","I","C","E","R">>) \/ testWord(s, <<"C","E","O">>) THEN "CEO"
    ELSE IF testWord(s, <<"C","H","I","E","F"," ","F","I","N","A","N","C","I","A","L"," ","O","F","F","I","C","E","R">>) \/ testWord(s, <<"C","F","O">>) THEN "CFO"
    ELSE IF testWord(s, <<"C","H","I","E","F"," ","O","P","E","R","A","T","I","N","G"," ","O","F","F","I","C","E","R">>) \/ testWord(s, <<"C","O","O">>) THEN "COO"
    ELSE IF testWord(s, <<"C","H","I","E","F"," ","T","E","C","H","N","O","L","O","G","Y"," ","O","F","F","I","C","E","R">>) \/ testWord(s, <<"C","T","O">>) THEN "CTO"
    ELSE IF testWord(s, <<"C","H","I","E","F"," ","C","O","M","P","L","I","A","N","C","E"," ","O","F","F","I","C","E","R">>) \/ testWord(s, <<"C","C","O">>) THEN "CCO"
    ELSE IF testWord(s, <<"C","H","I","E","F"," ","L","E","G","A","L"," ","O","F","F","I","C","E","R">>) \/ testWord(s, <<"C","L","O">>) THEN "CLO"
    ELSE IF testWord(s, <<"C","H","I","E","F"," ","A","C","C","O","U","N","T","I","N","G"," ","O","F","F","I","C","E","R">>) \/ testWord(s, <<"C","A","O">>) THEN "CAO"
    ELSE IF \/ testWord(s, <<"E","X","E","C","U","T","I","V","E"," ","V","I","C","E"," ","P","R","E","S","I","D","E","N","T">>) \/ testWords(s, <<"E","X","E","C">>, <<"V","P">>)
            \/ testWord(s, <<"E","V","P">>) THEN "EVP"
    ELSE IF \/ testWord(s, <<"S","E","N","I","O","R"," ","V","I","C","E"," ","P","R","E","S","I","D","E","N","T">>) \/ testWords(s, <<"S","R">>, <<"V","P">>)
            \/ testWord(s, <<"S","V","P">>) THEN "SVP"
    ELSE IF testWord(s, <<"P","R","E","S","I","D","E","N","T">>) THEN "PRES"
    ELSE IF testWord(s, <<"V","I","C","E"," ","P","R","E","S","I","D","E","N","T">>) \/ testWord(s, <<"V","P">>) THEN "VP"
    ELSE IF testWord(s, <<"D","I","R","E","C","T","O","R">>) THEN "DIR"
    ELSE IF testWord(s, <<"O","F","F","I","C","E","R">>) THEN "OFFICER"
    ELSE "INSIDER"

getInsiderRoleBadge(it) == roleBadgeOf(toUpperCase(roleRaw(it).s))

\* extractRole of the earlier FeedCard: substring tests, null when none matches
extractRole(rawTypeOfOwner) ==
    IF rawTypeOfOwner = Null \/ rawTypeOfOwner.s = E THEN Null
    ELSE LET value == toUpperCase(rawTypeOfOwner.s)
         IN IF includes(value, <<"C","E","O">>) THEN Str("CEO")
            ELSE IF includes(value, <<"C","F","O">>) THEN Str("CFO")
            ELSE IF includes(value, <<"C","O","O">>) THEN Str("COO")
            ELSE IF includes(value, <<"P","R","E","S","I","D","E","N","T">>) THEN Str("President")
            ELSE IF includes(value, <<"V","P">>) THEN Str("VP")
            ELSE IF includes(value, <<"D","I","R","E","C","T","O","R">>) THEN Str("Director")
            ELSE IF includes(value, <<"O","F","F","I","C","E","R">>) THEN Str("Officer")
            ELSE Null

\* the earlier FeedCard's label
insiderRole(it) ==
    Coalesce(extractRole(Coalesce(it.raw_typeOfOwner, it.insider_role)), Str("Insider")).s

\* titles as the filings give them
RoleTitles ==
    {<<"C","h","i","e","f"," ","F","i","n","a","n","c","i","a","l"," ","O","f","f","i","c","e","r">>, <<"C","h","i","e","f"," ","E","x","e","c","u","t","i","v","e"," ","O","f","f","i","c","e","r">>, <<"C","F","O">>,
     <<"E","x","e","c","u","t","i","v","e"," ","V","i","c","e"," ","P","r","e","s","i","d","e","n","t">>, <<"S","e","n","i","o","r"," ","V","i","c","e"," ","P","r","e","s","i","d","e","n","t">>, <<"S","r"," "," ","V","P">>,
     <<"V","i","c","e"," ","P","r","e","s","i","d","e","n","t">>, <<"P","r","e","s","i","d","e","n","t">>, <<"V","P">>, <<"D","i","r","e","c","t","o","r">>, <<"o","f","f","i","c","e","r">>,
     <<"C","o","o","r","d","i","n","a","t","o","r">>, <<"1","0","%"," ","O","w","n","e","r">>, E}

RoleItems ==
    [kind : {"insider_trade", "congress_trade"},
     insider_role : {Null} \cup {Str(t) : t \in RoleTitles},
     raw_typeOfOwner : {Null, Str(<<"D","i","r","e","c","t","o","r">>), Str(<<"V","i","c","e"," ","P","r","e","s","i","d","e","n","t">>)},
     raw_officerTitle : {Null, Str(<<"C","h","i","e","f"," ","F","i","n","a","n","c","i","a","l"," ","O","f","f","i","c","e","r">>)},
     raw_insiderRole : {Null},
     raw_position : {Null, Str(<<"P","r","e","s","i","d","e","n","t">>)}]

RoleInit ==
    /\ item \in RoleItems /\ card = NoCard
    /\ StoreInit /\ searchParams = EmptyUrl /\ total = 0 - 1

RoleCard(by, label) ==
    [by |-> by, shown |-> TRUE, kind |-> "none", value |-> Null, role |-> label]

\* the latest FeedCard renders the badge
RenderRole ==
    /\ card = NoCard
    /\ card' = RoleCard("getInsiderRoleBadge",
                        IF item.kind = "insider_trade"
                        THEN getInsiderRoleBadge(item) ELSE Null)
    /\ UNCHANGED <<feedVars, signalVars, item, storeVars, suggestVars, pagerVars, histVars>>

\* the earlier FeedCard renders its role
RenderRoleExtract ==
    /\ card = NoCard
    /\ card' = RoleCard("extractRole",
                        IF item.kind = "insider_trade"
                        THEN insiderRole(item) ELSE Null)
    /\ UNCHANGED <<feedVars, signalVars, item, storeVars, suggestVars, pagerVars, histVars>>

RoleNext == RenderRole \/ RenderRoleExtract

SpecRole == RoleInit /\ [][RoleNext]_vars

\* the literal phrases of the rule table with their labels
RolePatterns ==
    {[phrase |-> <<"C","H","I","E","F"," ","E","X","E","C","U","T","I","V","E"," ","O","F","F","I","C","E","R">>, label |-> "CEO"], [phrase |-> <<"C","H","I","E","F"," ","F","I","N","A","N","C","I","A","L"," ","O","F","F","I","C","E","R">>, label |-> "CFO"],
     [phrase |-> <<"C","H","I","E","F"," ","O","P","E","R","A","T","I","N","G"," ","O","F","F","I","C","E","R">>, label |-> "COO"], [phrase |-> <<"C","H","I","E","F"," ","T","E","C","H","N","O","L","O","G","Y"," ","O","F","F","I","C","E","R">>, label |-> "CTO"],
     [phrase |-> <<"C","H","I","E","F"," ","C","O","M","P","L","I","A","N","C","E"," ","O","F","F","I","C","E","R">>, label |-> "CCO"], [phrase |-> <<"C","H","I","E","F"," ","L","E","G","A","L"," ","O","F","F","I","C","E","R">>, label |-> "CLO"],
     [phrase |-> <<"C","H","I","E","F"," ","A","C","C","O","U","N","T","I","N","G"," ","O","F","F","I","C","E","R">>, label |-> "CAO"], [phrase |-> <<"E","X","E","C","U","T","I","V","E"," ","V","I","C","E"," ","P","R","E","S","I","D","E","N","T">>, label |-> "EVP"],
     [phrase |-> <<"S","E","N","I","O","R"," ","V","I","C","E"," ","P","R","E","S","I","D","E","N","T">>, label |-> "SVP"], [phrase |-> <<"V","I","C","E"," ","P","R","E","S","I","D","E","N","T">>, label |-> "VP"],
     [phrase |-> <<"P","R","E","S","I","D","E","N","T">>, label |-> "PRES"], [phrase |-> <<"D","I","R","E","C","T","O","R">>, label |-> "DIR"],
     [phrase |-> <<"O","F","F","I","C","E","R">>, label |-> "OFFICER"]}

\* p is a more specific pattern than q: q's phrase is a proper part of p's
MoreSpecific(p, q) == p.phrase # q.phrase /\ includes(p.phrase, q.phrase)

RoleMatches(p) == testWord(toUpperCase(roleRaw(item).s), p.phrase)

\* C19: a badge is never the label of a generic pattern when the title also
\* matches a more specific pattern of the table: the label is the one of a
\* matching pattern that no other matching pattern is more specific than
\* (Chief Financial Officer is CFO, never OFFICER; Vice President is VP,
\* never PRES).
C19_SpecificRoleWins ==
    (card.by = "getInsiderRoleBadge" /\ IsInsider) =>
        \A q \in RolePatterns :
            (RoleMatches(q) /\ \E p \in RolePatterns :
                                  RoleMatches(p) /\ MoreSpecific(p, q))
            => card.role # q.label

\* the title-like fields of an item in their fallback order
RoleFields(it) ==
    <<it.insider_role, it.raw_typeOfOwner, it.raw_officerTitle, it.raw_insiderRole,
      it.raw_position>>

\* the first field of fs that is neither missing nor empty, Null when none is
RECURSIVE FirstNonEmpty(_)
FirstNonEmpty(fs) ==
    IF fs = <<>> THEN Null
    ELSE IF Head(fs) # Null /\ Head(fs).s # <<>> THEN Head(fs)
    ELSE FirstNonEmpty(Tail(fs))

\* C25: the badge is the label of the first title-like field, in the fallback
\* order, that is neither missing nor empty; an empty earlier field does not
\* hide a later one.
C25_FirstNonEmptyField ==
    (card.by = "getInsiderRoleBadge" /\ IsInsider) =>
        card.role = roleBadgeOf(toUpperCase(
                        Coalesce(FirstNonEmpty(RoleFields(item)), Str(<<"I","N","S","I","D","E","R">>)).s))

(***************************************************************************)
(* Signals page: query parameters, load effect and load more               *)
(***************************************************************************)
PRESETS == {"discovery", "balanced", "strict"}
LIMITS == {25, 50, 100}
SORTS == {"multiple", "recent", "amount"}

sortDefaultForPreset(preset) == IF preset = "discovery" THEN "recent" ELSE "multiple"

\* an absent parameter is "" (names) or 0 / -1 (limit / offset)
parsePreset(v) == IF v \in PRESETS THEN v ELSE "balanced"
parseSort(v, preset) == IF v \in SORTS THEN v ELSE sortDefaultForPreset(preset)
parseOffset(v) == IF v >= 0 THEN v ELSE 0
parseLimit(v) == IF v \in LIMITS THEN v ELSE 100

hasSortParam(url) == url.sort # ""

\* preset, sort, limit and offset as a render derives them from the URL: the
\* values the load effect and fetchBatch depend on
Deps(url) ==
    [preset |-> parsePreset(url.preset),
     sort |-> parseSort(url.sort, parsePreset(url.preset)),
     limit |-> parseLimit(url.limit),
     offset |-> parseOffset(url.offset)]

\* updateParams of SignalsClient: the given keys replace those of the URL
updateSignalsParams(url, updates) ==
    [k \in DOMAIN url |-> IF k \in DOMAIN updates THEN updates[k] ELSE url[k]]

\* the effect that adds the sort parameter when the URL has none
sortEffect(url) ==
    IF hasSortParam(url) THEN url
    ELSE updateSignalsParams(url, [sort |-> Deps(url).sort, offset |-> Deps(url).offset])

\* hits the endpoint holds for every query
TotalHits == 120

\* the batch fetchBatch(requestedOffset) returns under the deps d
Batch(d, requestedOffset) == [d EXCEPT !.offset = requestedOffset]

\* number of items of a batch
BatchSize(b) == Max(0, Min(b.limit, TotalHits - b.offset))

\* the debug block of a response
ServerDebug == [t |-> "debug", total_hits |-> TotalHits]

\* chunks.flatMap(chunk => chunk.items) of the load effect
Chunks(d) == [i \in 1..((d.offset \div d.limit) + 1) |-> Batch(d, (i - 1) * d.limit)]

\* items.length
RECURSIVE itemsLength(_)
itemsLength(bs) == IF bs = <<>> THEN 0 ELSE BatchSize(Head(bs)) + itemsLength(Tail(bs))

canLoadMore == debug # Null /\ itemsLength(items) < debug.total_hits

\* a run of the load effect (kind "load") or a handleLoadMore call (kind
\* "more") awaiting its data, with the values its closure holds
Fetch(kind, url, dbg) ==
    [kind |-> kind, deps |-> Deps(url), url |-> url, debug |-> dbg, cancelled |-> FALSE]

\* cleanup of the load effect: cancelled = true
cancelLoads(F) ==
    {IF f.kind = "load" THEN [f EXCEPT !.cancelled = TRUE] ELSE f : f \in F}

\* the URL becomes url and the component re-renders: when offset, limit or
\* fetchBatch changed, the running load is cancelled and a new one starts
signalsNavigate(url, F) ==
    /\ signalsUrl' = url
    /\ IF Deps(url) = Deps(signalsUrl)
       THEN fetches' = F /\ UNCHANGED <<loading, errorMessage>>
       ELSE /\ fetches' = cancelLoads(F) \cup {Fetch("load", url, Null)}
            /\ loading' = TRUE
            /\ errorMessage' = Null

\* URLs the signals page is opened with
InitSignalsUrls ==
    {NoSignalsParams,
     [preset |-> "strict", sort |-> "amount", limit |-> 25, offset |-> 0]}

\* after the first render: the sort parameter is in the URL, the first load runs
SignalsInit ==
    /\ \E u \in InitSignalsUrls :
          /\ signalsUrl = sortEffect(u)
          /\ fetches = {Fetch("load", sortEffect(u), Null)}
    /\ items = <<>> /\ debug = Null
    /\ loading = TRUE /\ loadingMore = FALSE /\ errorMessage = Null
    /\ FeedIdle
    /\ searchParams = EmptyUrl
    /\ filters = initialFilters(searchParams)
    /\ pendingNav = <<>> /\ commitTimer = FALSE
    /\ symbolSuggestions = <<>> /\ highlightedSuggestionIndex = 0 - 1
    /\ showSymbolSuggestions = FALSE /\ isSuggestingSymbol = FALSE
    /\ suggestionsRequestRef = 0 /\ suggestTimer = NoTimer /\ inflight = {}
    /\ page = 1 /\ pageSize = 50 /\ total = 0 - 1
    /\ edits = 0 /\ writes = 0 /\ burst = 0
    /\ lastOp = Op("mount", Fetch("none", signalsUrl, debug), TRUE)
    /\ item = IdleItem /\ card = NoCard

signalsRest == <<feedVars, clsVars, storeVars, suggestVars, pagerVars, writes, burst>>

handlePresetChange(nextPreset) ==
    /\ edits < MaxEdits
    /\ signalsNavigate(updateSignalsParams(signalsUrl,
           [preset |-> nextPreset, sort |-> sortDefaultForPreset(nextPreset),
            offset |-> 0]), fetches)
    /\ edits' = edits + 1
    /\ lastOp' = Op("handlePresetChange", Fetch("none", signalsUrl, debug), TRUE)
    /\ UNCHANGED <<items, debug, loadingMore, signalsRest>>

handleSortChange(nextSort) ==
    /\ edits < MaxEdits
    /\ signalsNavigate(updateSignalsParams(signalsUrl,
           [sort |-> nextSort, offset |-> 0]), fetches)
    /\ edits' = edits + 1
    /\ lastOp' = Op("handleSortChange", Fetch("none", signalsUrl, debug), TRUE)
    /\ UNCHANGED <<items, debug, loadingMore, signalsRest>>

handleLimitChange(nextLimit) ==
    /\ edits < MaxEdits
    /\ signalsNavigate(updateSignalsParams(signalsUrl,
           [limit |-> nextLimit, offset |-> 0]), fetches)
    /\ edits' = edits + 1
    /\ lastOp' = Op("handleLimitChange", Fetch("none", signalsUrl, debug), TRUE)
    /\ UNCHANGED <<items, debug, loadingMore, signalsRest>>

\* the load effect's fetches resolve
loadResolve(f) ==
    /\ f \in fetches /\ f.kind = "load"
    /\ fetches' = fetches \ {f}
    /\ IF f.cancelled
       THEN UNCHANGED <<items, debug, loading>>
       ELSE /\ items' = Chunks(f.deps)
            /\ debug' = ServerDebug
            /\ loading' = FALSE
    /\ lastOp' = Op("loadResolve", f, ~f.cancelled)
    /\ UNCHANGED <<signalsUrl, loadingMore, errorMessage, edits, signalsRest>>

\* one of the load effect's fetches rejects
loadFail(f) ==
    /\ f \in fetches /\ f.kind = "load"
    /\ fetches' = fetches \ {f}
    /\ IF f.cancelled
       THEN UNCHANGED <<items, debug, loading, errorMessage>>
       ELSE /\ items' = <<>>
            /\ debug' = Null
            /\ errorMessage' = Str("Request failed")
            /\ loading' = FALSE
    /\ lastOp' = Op("loadFail", f, ~f.cancelled)
    /\ UNCHANGED <<signalsUrl, loadingMore, edits, signalsRest>>

\* the Load more button is clicked: handleLoadMore up to its await
handleLoadMore ==
    /\ edits < MaxEdits
    /\ canLoadMore /\ ~loadingMore
    /\ loadingMore' = TRUE
    /\ fetches' = fetches \cup {Fetch("more", signalsUrl, debug)}
    /\ edits' = edits + 1
    /\ lastOp' = Op("handleLoadMore", Fetch("more", signalsUrl, debug), TRUE)
    /\ UNCHANGED <<signalsUrl, items, debug, loading, errorMessage, signalsRest>>

\* handleLoadMore after its await: the batch is appended and the offset is
\* written to the URL the closure holds
moreResolve(f) ==
    /\ f \in fetches /\ f.kind = "more"
    /\ LET nextOffset == f.deps.offset + f.deps.limit
       IN /\ items' = Append(items, Batch(f.deps, nextOffset))
          /\ debug' = Coalesce(ServerDebug, f.debug)
          /\ signalsNavigate(updateSignalsParams(f.url, [offset |-> nextOffset]),
                             fetches \ {f})
    /\ loadingMore' = FALSE
    /\ lastOp' = Op("moreResolve", f, TRUE)
    /\ UNCHANGED <<edits, signalsRest>>

\* handleLoadMore's fetch rejects
moreFail(f) ==
    /\ f \in fetches /\ f.kind = "more"
    /\ fetches' = fetches \ {f}
    /\ errorMessage' = Str("Request failed")
    /\ loadingMore' = FALSE
    /\ lastOp' = Op("moreFail", f, FALSE)
    /\ UNCHANGED <<signalsUrl, items, debug, loading, edits, signalsRest>>

SignalsNext ==
    \/ \E p \in PRESETS : handlePresetChange(p)
    \/ \E s \in SORTS : handleSortChange(s)
    \/ \E l \in LIMITS : handleLimitChange(l)
    \/ handleLoadMore
    \/ \E f \in fetches : loadResolve(f)
    \/ \E f \in fetches : loadFail(f)
    \/ \E f \in fetches : moreResolve(f)
    \/ \E f \in fetches : moreFail(f)

SpecSignals == SignalsInit /\ [][SignalsNext]_vars

\* the fetch f was issued for other parameters than the view now has
StaleFetch(f) == f.deps # Deps(signalsUrl)

\* C20: when a fetch resolves that was issued for a parameter set the view
\* has left since, the displayed items, the debug block and the URL stay as
\* they are: the late result is neither shown, nor appended, nor written to
\* the URL.
C20_LatestFetchWins ==
    [][(lastOp'.op \in {"loadResolve", "moreResolve"} /\ lastOp' # lastOp
        /\ StaleFetch(lastOp'.arg))
       => (items' = items /\ debug' = debug /\ signalsUrl' = signalsUrl)]_vars

\* the row the table shows when it has no items (its text, or none when the
\* table has items): the only place errorMessage is rendered
emptyRow ==
    IF Len(items) # 0 THEN "none"
    ELSE IF loading THEN "Loading signals..."
    ELSE IF errorMessage # Null THEN "Unable to load signals."
    ELSE "No unusual signals returned."

\* C21: after a request of the signals page has failed (the load of the
\* current parameters, or a load more), the view shows its error message.
C21_FailureVisible ==
    ((lastOp.op = "loadFail" /\ lastOp.ok) \/ lastOp.op = "moreFail")
    => emptyRow = "Unable to load signals."

(***************************************************************************)
(* FeedPage: the events request, the mapping to feed items, Load more      *)
(***************************************************************************)
\* (event.payload ?? {})[k]: a payload that is absent or is text has no such
\* property
payloadProp(payload, k) ==
    IF payload # Null /\ payload.t = "obj" THEN payload[k] ELSE Null

\* one element of events.items.map(...): the mapped item with the fields the
\* page adds
feedItemOf(event) ==
    LET dates == mapEventToFeedItem(
                    [kind |-> event.event_type, ts |-> event.ts,
                     payload_trade_date |-> payloadProp(event.payload, "trade_date"),
                     payload_report_date |-> payloadProp(event.payload, "report_date")])
    IN [id |-> event.id,
        trade_date |-> dates.trade_date,
        report_date |-> dates.report_date,
        ticker |-> Coalesce(asTrimmedString(payloadProp(event.payload, "symbol")),
                            event.ticker),
        timestamp |-> event.ts]

\* events.items.map(...)
feedItems(evs) == [i \in 1..Len(evs) |-> feedItemOf(evs[i])]

\* what /api/events answers: two events per page, the cursor "c" after the
\* first page
serverResponse(store, cursor) ==
    IF trim(cursor) = E
    THEN [items |-> SubSeq(store, 1, Min(2, Len(store))),
          next_cursor |-> IF Len(store) > 2 THEN Str(<<"c">>) ELSE Null]
    ELSE IF trim(cursor) = <<"c">>
    THEN [items |-> SubSeq(store, 3, Len(store)), next_cursor |-> Null]
    ELSE NoEvents

\* FeedPage renders the query url: getFeed answers (ok) or throws, the events
\* are mapped, FeedFilters takes its filters from the query
FeedPage(url, ok) ==
    /\ events' = (IF ok THEN serverResponse(upstream, url.cursor) ELSE NoEvents)
    /\ items' = feedItems(events'.items)
    /\ searchParams' = url
    /\ filters' = initialFilters(url)

TS_0302 == <<"2","0","2","4","-","0","3","-","0","2","T","1","2",":","0","0",":","0","0","Z">>
TS_0303 == <<"2","0","2","4","-","0","3","-","0","3","T","1","2",":","0","0",":","0","0","Z">>
TS_0304 == <<"2","0","2","4","-","0","3","-","0","4","T","1","2",":","0","0",":","0","0","Z">>

\* a decoded payload
PayloadObj ==
    [t |-> "obj", trade_date |-> Str(D_0101), report_date |-> Str(D_0110),
     symbol |-> Str(SYM_NV)]

\* the events the API may hold: payload decoded, delivered as JSON text,
\* absent
FeedEvents ==
    {[id |-> 1, event_type |-> "congress_trade", ts |-> Str(TS_0304),
      ticker |-> Str(SYM_NX), payload |-> PayloadObj],
     [id |-> 2, event_type |-> "congress_trade", ts |-> Str(TS_0303),
      ticker |-> Str(SYM_NX), payload |-> [t |-> "text", json |-> PayloadObj]],
     [id |-> 3, event_type |-> "congress_trade", ts |-> Str(TS_0302),
      ticker |-> Null, payload |-> Null],
     [id |-> 4, event_type |-> "congress_trade", ts |-> Str(TS_0301),
      ticker |-> Str(SYM_N), payload |-> PayloadObj]}

\* the orders the API may answer in
Upstreams ==
    {s \in [1..3 -> FeedEvents] \cup [1..4 -> FeedEvents] :
        \A i \in DOMAIN s : \A j \in DOMAIN s : i # j => s[i] # s[j]}

\* queries the feed is opened with
FeedUrls ==
    {EmptyUrl,
     [EmptyUrl EXCEPT !.symbol = SYM_N, !.min_amount = <<"2">>],
     [EmptyUrl EXCEPT !.tape = "insider", !.role = <<"C">>,
                      !.transaction_type = <<"s">>, !.limit = 25]}

FeedInit ==
    /\ upstream \in Upstreams
    /\ searchParams \in FeedUrls
    /\ \E ok \in BOOLEAN :
          /\ events = (IF ok THEN serverResponse(upstream, searchParams.cursor)
                       ELSE NoEvents)
          /\ lastOp = Op("FeedPage", 0, ok)
    /\ items = feedItems(events.items)
    /\ filters = initialFilters(searchParams)
    /\ signalsUrl = NoSignalsParams /\ debug = Null
    /\ loading = FALSE /\ loadingMore = FALSE /\ errorMessage = Null
    /\ fetches = {}
    /\ pendingNav = <<>> /\ commitTimer = FALSE
    /\ symbolSuggestions = <<>> /\ highlightedSuggestionIndex = 0 - 1
    /\ showSymbolSuggestions = FALSE /\ isSuggestingSymbol = FALSE
    /\ suggestionsRequestRef = 0 /\ suggestTimer = NoTimer /\ inflight = {}
    /\ page = 1 /\ pageSize = 50 /\ total = 0 - 1
    /\ edits = 0 /\ writes = 0 /\ burst = 0
    /\ item = IdleItem /\ card = NoCard

feedRest ==
    <<upstream, signalsUrl, debug, loading, loadingMore, errorMessage, fetches,
      clsVars, pendingNav, commitTimer, suggestVars, pagerVars, writes, burst>>

\* the user follows the Load more link, rendered when the response has a
\* next cursor; the page is rendered for the link's query
followLoadMore(ok) ==
    /\ edits < MaxEdits
    /\ events.next_cursor # Null
    /\ FeedPage(loadMoreUrl(searchParams, events.next_cursor.s), ok)
    /\ edits' = edits + 1
    /\ lastOp' = Op("followLoadMore", 0, ok)
    /\ UNCHANGED feedRest

\* the user reloads the page
reloadPage(ok) ==
    /\ edits < MaxEdits
    /\ FeedPage(searchParams, ok)
    /\ edits' = edits + 1
    /\ lastOp' = Op("reloadPage", 0, ok)
    /\ UNCHANGED feedRest

FeedNext ==
    \/ \E ok \in BOOLEAN : followLoadMore(ok)
    \/ \E ok \in BOOLEAN : reloadPage(ok)

SpecFeed == FeedInit /\ [][FeedNext]_vars

\* C22: following Load more with an answered request leaves the items
\* already displayed in place, in their order, and adds the next batch after
\* them.
C22_LoadMoreAppends ==
    [][(lastOp'.op = "followLoadMore" /\ lastOp'.ok /\ edits' = edits + 1)
       => /\ Len(items') >= Len(items)
          /\ SubSeq(items', 1, Len(items)) = items]_vars

\* C23: the items of the rendered feed are in descending order of their
\* timestamps, whatever the order of the API's answer.
C23_FeedTimestampDescending ==
    \A i \in 1..Len(items) : \A j \in 1..Len(items) :
        i < j => DayNumber(items[i].timestamp) >= DayNumber(items[j].timestamp)

\* the event with its payload decoded when it was delivered as JSON text
decodedEvent(event) ==
    IF event.payload # Null /\ event.payload.t = "text"
    THEN [event EXCEPT !.payload = event.payload.json]
    ELSE event

\* C26: the item emitted for an event whose payload arrived as JSON text is
\* the item emitted for the same event with the payload decoded.
C26_EncodedPayloadDecoded ==
    \A i \in 1..Len(items) : items[i] = feedItemOf(decodedEvent(events.items[i]))

\* C30: following Load more changes nothing in the query but the cursor:
\* every other parameter of the current query (mode, role, transaction type
\* and page size included) is carried unchanged.
C30_LoadMoreKeepsFilters ==
    [][(lastOp'.op = "followLoadMore" /\ edits' = edits + 1)
       => searchParams' = [searchParams EXCEPT !.cursor = events.next_cursor.s]]_vars

(***************************************************************************)
(* Value parsers, on their own                                             *)
(***************************************************************************)
\* asNumber of the page: a number that is not NaN, or the Number() of a
\* trimmed string when that is not NaN
asNumber(value) ==
    IF value # Null /\ value.t \in {"num", "inf"} THEN value
    ELSE IF value # Null /\ value.t = "str"
    THEN LET trimmed == trim(value.s)
         IN IF trimmed = <<>> THEN Null
            ELSE IF NumberOf(trimmed) = NaN THEN Null ELSE NumberOf(trimmed)
    ELSE Null

\* values handed to the parsers (numbers in hundredths)
ParseInputs ==
    {Null, NaN, Inf, [t |-> "bool"], Num(0), Num(150000), Num(0 - 500)} \cup
    {Str(s) : s \in {<<"1",",","0","0","0">>, <<"$","2","5",".","5","0">>, <<" ","4","2"," ">>, <<>>, <<" "," ">>, <<"a","b","c">>, <<"1",".","2",".","3">>, <<"-","5">>,
                     <<"$">>, <<"I","n","f","i","n","i","t","y">>, <<"$","1",",","2","3","4",".","5","6">>, <<"1","2","a","b","c">>, <<"$"," ","5">>, <<".","5">>, <<"5",".">>,
                     <<"0">>, <<"-">>, <<",">>, <<"1",",","0">>, <<"$","$","7">>, <<"7","$">>, <<"2","5","5","0">>, <<"2","5",".","5">>}}

ParseInit ==
    /\ item \in [kind : {"value"}, input : ParseInputs] /\ card = NoCard
    /\ StoreInit /\ searchParams = EmptyUrl /\ total = 0 - 1

Parsed(by, value) == [by |-> by, shown |-> FALSE, kind |-> "none", value |-> value]

\* parseNum of the latest FeedCard is applied
applyParseNum ==
    /\ card = NoCard
    /\ card' = Parsed("parseNum", parseNum(item.input))
    /\ UNCHANGED <<feedVars, signalVars, item, storeVars, suggestVars, pagerVars, histVars>>

\* parseNum of the other FeedCards is applied
applyParseNumComma ==
    /\ card = NoCard
    /\ card' = Parsed("parseNumComma", parseNumComma(item.input))
    /\ UNCHANGED <<feedVars, signalVars, item, storeVars, suggestVars, pagerVars, histVars>>

\* asNumber of the page is applied
applyAsNumber ==
    /\ card = NoCard
    /\ card' = Parsed("asNumber", asNumber(item.input))
    /\ UNCHANGED <<feedVars, signalVars, item, storeVars, suggestVars, pagerVars, histVars>>

ParseNext == applyParseNum \/ applyParseNumComma \/ applyAsNumber

SpecParse == ParseInit /\ [][ParseNext]_vars

\* a decimal numeral: an optional minus sign, digits, at most one point, at
\* least one digit
IsDecimal(s) ==
    LET body == IF s # <<>> /\ Head(s) = "-" THEN Tail(s) ELSE s
    IN /\ \A i \in 1..Len(body) : IsDigit(body[i]) \/ body[i] = "."
       /\ Cardinality({i \in 1..Len(body) : body[i] = "."}) <= 1
       /\ \E i \in 1..Len(body) : IsDigit(body[i])

\* what the Value Parser is to return for v: a finite number as it is; a
\* string trimmed and stripped of "$" and "," when a numeral is left; absent
\* otherwise
ParsedValue(v) ==
    IF v # Null /\ v.t = "num" THEN v
    ELSE IF v # Null /\ v.t = "str"
    THEN LET cleaned == trim(stripChars(trim(v.s), {"$", ","}))
         IN IF IsDecimal(cleaned) THEN NumberOf(cleaned) ELSE Null
    ELSE Null

initialFiltersSync(sp) ==
    [symbol |-> normalizeValue(sp.symbol),
     member |-> normalizeValue(sp.member),
     chamber |-> normalizeValue(sp.chamber),
     party |-> normalizeValue(sp.party),
     tradeType |-> normalizeValue(sp.trade_type),
     minAmount |-> normalizeValue(sp.min_amount),
     recentDays |-> normalizeValue(sp.recent_days)]

\* buildParams: a fresh query holding the trimmed non-empty filters and the
\* limit of the current query
buildParamsSync(sp, nextFilters) ==
    [EmptyUrl EXCEPT
        !.symbol = trim(nextFilters.symbol), !.member = trim(nextFilters.member),
        !.chamber = trim(nextFilters.chamber), !.party = trim(nextFilters.party),
        !.trade_type = trim(nextFilters.tradeType),
        !.min_amount = trim(nextFilters.minAmount),
        !.recent_days = trim(nextFilters.recentDays), !.limit = sp.limit]

\* commitFilters
commitFilters(nextFilters) == Navigate(buildParamsSync(searchParams, nextFilters))

\* the commit effect, run after filters or the query changed: whether it
\* schedules commitFilters (it returns early when the query built from the
\* filters equals the current query without its cursor and there is no cursor)
commitEffect(sp, f) ==
    ~(buildParamsSync(sp, f) = [sp EXCEPT !.cursor = E] /\ sp.cursor = E)

\* updateFilter(key): onChange of an input; selections and presets set one
\* filter the same way
updateFilter(key, value) ==
    /\ edits < MaxEdits
    /\ value # filters[key]
    /\ filters' = [filters EXCEPT ![key] = value]
    /\ commitTimer' = commitEffect(searchParams, filters')
    /\ edits' = edits + 1
    /\ burst' = burst + 1
    /\ lastOp' = Op("updateFilter", 0, TRUE)
    /\ UNCHANGED <<feedVars, signalVars, searchParams, pendingNav, writes, suggestVars,
                   pagerVars, clsVars>>

\* handleReset: the cleared filters are set and committed at once
handleReset ==
    LET cleared == initialFiltersSync(EmptyUrl)
    IN /\ edits < MaxEdits
       /\ filters' = cleared
       /\ commitFilters(cleared)
       /\ commitTimer' = commitEffect(searchParams, cleared)
       /\ edits' = edits + 1
       /\ burst' = burst + 1
       /\ lastOp' = Op("handleReset", 0, TRUE)
       /\ UNCHANGED <<feedVars, signalVars, searchParams, suggestVars, pagerVars, clsVars>>

\* the timeout of the commit effect expires
commitFire ==
    /\ commitTimer
    /\ commitTimer' = FALSE
    /\ commitFilters(filters)
    /\ burst' = 0
    /\ lastOp' = Op("commit", burst, TRUE)
    /\ UNCHANGED <<feedVars, signalVars, filters, searchParams, suggestVars, pagerVars,
                   edits, clsVars>>

\* a requested navigation is applied: initialFilters is recomputed, the sync
\* effect sets filters to it, and the commit effect runs on the new filters
syncNav ==
    /\ pendingNav # <<>>
    /\ pendingNav' = Tail(pendingNav)
    /\ searchParams' = Head(pendingNav)
    /\ IF Head(pendingNav) = searchParams
       THEN /\ UNCHANGED <<filters, commitTimer>>
            /\ lastOp' = Op("nav", burst, FALSE)
       ELSE /\ filters' = initialFiltersSync(Head(pendingNav))
            /\ commitTimer' = commitEffect(Head(pendingNav), filters')
            /\ lastOp' = Op("nav", burst, TRUE)
    /\ UNCHANGED <<feedVars, signalVars, suggestVars, pagerVars, edits, writes, burst,
                   clsVars>>

\* the URLs the feed is opened with
SyncUrls ==
    {EmptyUrl,
     [EmptyUrl EXCEPT !.symbol = SYM_N, !.limit = 25],
     [EmptyUrl EXCEPT !.member = <<"P">>, !.cursor = <<"c">>]}

\* on mount the sync effect sets the ref and the commit effect consumes it:
\* nothing is scheduled
SyncInit ==
    /\ SignalsIdle
    /\ searchParams \in SyncUrls
    /\ filters = initialFiltersSync(searchParams)
    /\ pendingNav = <<>>
    /\ commitTimer = FALSE
    /\ symbolSuggestions = <<>>
    /\ highlightedSuggestionIndex = 0 - 1
    /\ showSymbolSuggestions = FALSE
    /\ isSuggestingSymbol = FALSE
    /\ suggestionsRequestRef = 0
    /\ suggestTimer = NoTimer
    /\ inflight = {}
    /\ page = 1 /\ pageSize = 50 /\ total = 0 - 1
    /\ edits = 0 /\ writes = 0 /\ burst = 0
    /\ lastOp = Op("mount", 0, TRUE)
    /\ item = IdleItem /\ card = NoCard

SyncNext ==
    \/ \E key \in {"symbol", "member", "chamber", "party", "tradeType", "minAmount",
                   "recentDays"} :
           \E value \in EditValues(key) : updateFilter(key, value)
    \/ handleReset
    \/ commitFire
    \/ syncNav
    \/ loadMore

SpecSync == SyncInit /\ [][SyncNext]_vars

\* C27: with a cursor in the URL and no filter edited since the previous
\* expiry of the commit timer, or since the URL change just applied, the
\* expiry of the commit timer writes no URL (so the cursor stays).
C27_CursorKeptWithoutEdit ==
    [][(/\ searchParams.cursor # E
        /\ burst = 0 \/ lastOp.op = "nav"
        /\ lastOp'.op \in {"commit", "debounce"})
       => writes' = writes]_vars

(***************************************************************************)
(* URL encoding of a FilterState, on its own                               *)
(***************************************************************************)
\* FilterStates to encode: values as typed (padded or not), filters of
\* other modes set or not
RTFilters ==
    [tape : Modes,
     symbol : {E, SYM_N, <<" ", "N">>, <<"N", " ">>, <<" ">>},
     minAmount : {E, <<"2">>},
     recentDays : {E, <<"7">>},
     member : {E, <<"P">>, <<"P", " ">>},
     chamber : {E, <<"h">>},
     party : {E},
     tradeType : {E, <<"s">>},
     transactionType : {E, <<"s">>},
     role : {E, <<"C">>}]

RTInit ==
    /\ StoreInit /\ searchParams = EmptyUrl /\ total = 0 - 1
    /\ item = IdleItem /\ card = NoCard

\* the filters are replaced by the FilterState to encode, and committed
rtEncode(f) ==
    /\ lastOp.op = "mount"
    /\ filters' = f
    /\ searchParams' = commitUrl(searchParams, f)
    /\ lastOp' = Op("encode", 0, TRUE)
    /\ UNCHANGED <<feedVars, signalVars, pendingNav, commitTimer, suggestVars, pagerVars, edits, writes,
                   burst, clsVars>>

\* the committed URL is decoded again
rtDecode ==
    /\ lastOp.op = "encode"
    /\ filters' = initialFilters(searchParams)
    /\ lastOp' = Op("decode", 0, filters' = filters)
    /\ UNCHANGED <<feedVars, signalVars, searchParams, pendingNav, commitTimer, suggestVars, pagerVars,
                   edits, writes, burst, clsVars>>

RTNext == (\E f \in RTFilters : rtEncode(f)) \/ rtDecode

SpecRT == RTInit /\ [][RTNext]_vars

(***************************************************************************)
(* Claims about the suggestion engine, the store and the URL               *)
(***************************************************************************)
Last(q) == q[Len(q)]

\* C1: request ids only grow, a dispatched request carries the latest id,
\* greater than that of every request in flight, and a response whose id is
\* not the latest issued when it arrives leaves the visible list and the
\* highlight as they are (so an overtaken R1 is discarded on arrival).
C1_StaleResponseSuppressed ==
    [][/\ suggestionsRequestRef' >= suggestionsRequestRef
       /\ \A r \in inflight' \ inflight :
              /\ r.requestId = suggestionsRequestRef
              /\ \A q \in inflight : q.requestId < r.requestId
       /\ \A r \in inflight \ inflight' :
              r.requestId # suggestionsRequestRef
                  => /\ symbolSuggestions' = symbolSuggestions
                     /\ highlightedSuggestionIndex' = highlightedSuggestionIndex
      ]_vars

\* R2's result is on screen and the overtaken R1 has just been discarded
C1_Witness ==
    /\ lastOp.op = "response" /\ ~lastOp.ok
    /\ lastOp.arg < suggestionsRequestRef
    /\ symbolSuggestions = <<SYM_NV, SYM_NX>>
    /\ inflight = {}

\* C12: no suggestion request is scheduled or in flight for an empty
\* prefix, and while the symbol input is empty (after trimming) no candidate
\* list is on screen.
C12_EmptyInputNoSuggestions ==
    /\ suggestTimer.armed => suggestTimer.prefix # E
    /\ \A r \in inflight : r.prefix # E
    /\ trim(filters.symbol) = E
           => ~(showSymbolSuggestions /\ symbolSuggestions # <<>>)

C14_CircularKeyboard ==
    [][LET n == Len(symbolSuggestions)
           hi == highlightedSuggestionIndex
           next == highlightedSuggestionIndex'
       IN /\ lastOp'.op \in {"ArrowDown", "ArrowUp"}
                 => (n > 0 /\ next \in 0..(n - 1) /\ symbolSuggestions' = symbolSuggestions)
          /\ lastOp'.op = "ArrowDown"
                 => next = (IF hi = n - 1 THEN 0 ELSE hi + 1)
          /\ lastOp'.op = "ArrowUp"
                 => next = (IF hi <= 0 THEN n - 1 ELSE hi - 1)
      ]_vars

\* ArrowDown on the last of two candidates has highlighted the first
C14_Witness ==
    /\ lastOp = Op("ArrowDown", 1, TRUE)
    /\ Len(symbolSuggestions) = 2
    /\ highlightedSuggestionIndex = 0

\* C15: while the total is unknown the pager's next and last controls are
\* disabled, so no click on the pager goes to a page (with an unknown total
\* the view is on page 1, where the first and previous controls are disabled).
C15_UnknownTotalDisablesNext ==
    [][(total = 0 - 1 /\ edits' = edits + 1) => lastOp'.op # "goToPage"]_vars

\* C16: a page-size change, from any page, sets the page to 1 and writes a
\* URL with the new size, page 1 and offset 0.
C16_PageSizeResetsPage ==
    [][(lastOp'.op = "changePageSize" /\ edits' = edits + 1)
           => /\ pageSize' # pageSize
              /\ page' = 1
              /\ pendingNav' = Append(pendingNav, Last(pendingNav'))
              /\ Last(pendingNav').limit = pageSize'
              /\ Last(pendingNav').page = 1
              /\ Last(pendingNav').offset = 0
      ]_vars

\* the page size was changed on page 2
C16_Witness ==
    /\ lastOp.op = "changePageSize"
    /\ searchParams.page = 2 /\ searchParams.offset = 50
    /\ page = 1 /\ pageSize = 25
    /\ pendingNav # <<>> /\ Last(pendingNav).offset = 0 /\ Last(pendingNav).limit = 25

\* the URL parameter of a filter key
ParamOf(key) ==
    IF key = "minAmount" THEN "min_amount"
    ELSE IF key = "recentDays" THEN "recent_days"
    ELSE IF key = "tradeType" THEN "trade_type"
    ELSE IF key = "transactionType" THEN "transaction_type"
    ELSE key

FilterKeys ==
    {"symbol", "minAmount", "recentDays", "member", "chamber", "party",
     "tradeType", "transactionType", "role"}

\* url carries the mode of f and the value of every filter shown in it
Carries(url, f) ==
    /\ url.tape = f.tape
    /\ \A key \in VisibleKeys(f.tape) : url[ParamOf(key)] = f[key]

DebounceStep == commitTimer /\ ~commitTimer' /\ lastOp'.op = "debounce"
EditStep == edits' = edits + 1 /\ lastOp'.op \in {"update", "setMode", "onReset"}

C3_ResyncKeepsEdits ==
    [][(lastOp'.op = "nav" /\ pendingNav' = Tail(pendingNav) /\ burst >= 1)
           => filters' = filters]_vars

\* C4: a URL write caused by a filter change (debounced commit or selected
\* suggestion) carries no cursor and no page/offset position.
C4_WriteResetsPagination ==
    (lastOp.op \in {"debounce", "select"} /\ lastOp.ok /\ pendingNav # <<>>)
        => /\ Last(pendingNav).cursor = E
           /\ Last(pendingNav).page = 0
           /\ Last(pendingNav).offset = 0 - 1

\* C5: a mode switch sets the mode, empties every filter that has no input
\* in the new mode and leaves every filter that has one (symbol, minAmount,
\* recentDays among them) as it was.
C5_ModePrunesHidden ==
    [][(edits' = edits + 1 /\ lastOp'.op = "setMode")
           => /\ \A key \in FilterKeys \ VisibleKeys(filters'.tape) : filters'[key] = E
              /\ \A key \in VisibleKeys(filters'.tape) : filters'[key] = filters[key]
      ]_vars

\* congress -> insider: member is cleared (the URL still has it), the
\* minimum amount is kept
C5_Witness ==
    /\ lastOp.op = "setMode"
    /\ searchParams.tape = "congress" /\ searchParams.member = <<"P">>
    /\ filters.tape = "insider" /\ filters.member = E
    /\ filters.minAmount = <<"2">>

\* C6 as stated: decoding the encoding of any FilterState gives it back.
C6_RoundTrip ==
    lastOp.op = "decode" => lastOp.ok

Trimmed(f) == \A key \in FilterKeys : trim(f[key]) = f[key]

\* C6 amended: decoding the encoding gives back the FilterState without the
\* padding of its values and without the filters of other modes; it is the
\* identity on states that have neither.
C6_RoundTripNormalized ==
    /\ lastOp.op = "encode" =>
           /\ \A key \in VisibleKeys(filters.tape) :
                  initialFilters(searchParams)[key] = trim(filters[key])
           /\ \A key \in FilterKeys \ VisibleKeys(filters.tape) :
                  initialFilters(searchParams)[key] = E
           /\ initialFilters(searchParams).tape = filters.tape
           /\ (Trimmed(filters) /\ filters = clearHiddenFilters(filters.tape, filters))
                  => initialFilters(searchParams) = filters
    /\ (lastOp.op = "decode" /\ lastOp.ok) =>
           (Trimmed(filters) /\ filters = clearHiddenFilters(filters.tape, filters))

C6_Witness ==
    /\ lastOp.op = "decode" /\ lastOp.ok
    /\ filters.tape = "congress" /\ filters.symbol = SYM_N /\ filters.member = <<"P">>
    /\ filters.minAmount = <<"2">>

AllCleared(url) ==
    /\ url.tape = "all"
    /\ \A key \in FilterKeys : url[ParamOf(key)] = E

FullyReset(f) ==
    /\ f.tape = "all"
    /\ \A key \in FilterKeys : f[key] = E

====
